---- MODULE Spec2Model ----
(***************************************************************************)
(* QueryMind: the request pipeline of backend/main.py (chat_query) and the *)
(* LangGraph workflow of backend/orchestrator.py, for one request.         *)
(*                                                                         *)
(* Text is modelled as a sequence of one-character strings, so that the    *)
(* code's substring tests, prefix/suffix tests, strip() and lower() are    *)
(* computed on the same characters the code sees.                          *)
(***************************************************************************)
EXTENDS Integers, Sequences, FiniteSets, TLC

VARIABLES
    pc,                    \* position of the request in chat_query / the graph
    query,                 \* state['query'] (request.message)
    intent,                \* state['intent']
    sql_query,             \* state['sql_query']
    results,               \* state['results']
    visualization_config,  \* state['visualization_config']
    memory_context,        \* state['memory_context']
    db_schema,             \* state['db_schema']
    error,                 \* state['error']
    insights,              \* state['insights'] (Absent while the key is not in the dict)
    message,               \* final_state['message'] (Absent until chat_query sets it)
    mem_manager,           \* whether get_memory_manager() returns a manager
    exc,                   \* str(e) of the exception in flight to chat_query's except
    trace,                 \* graph nodes entered so far, in order
    calls,                 \* external calls made so far, in order
    store_task,            \* the fire-and-forget store_exchange task
    lookup,                \* the frame of a running wikipedia_lookup coroutine
    suspended,             \* the frame of a second request whose task is not running
    loop,                  \* the event loop: its tasks and the call each one is in
    pool                   \* database._pool and the coroutines inside get_pool

vars == <<pc, query, intent, sql_query, results, visualization_config,
          memory_context, db_schema, error, insights, message, mem_manager,
          exc, trace, calls, store_task, lookup, suspended, loop, pool>>

-----------------------------------------------------------------------------
(* Python values *)

\* None, where the code holds Optional text
None == <<"None">>

\* a key that is not in the dict
Absent == <<"Absent">>

\* state['results']: None or a list of rows
NoneResults == [none |-> TRUE, rows |-> <<>>]

ListOf(rows) == [none |-> FALSE, rows |-> rows]

\* a value of a result row
StrValue(s) == [t |-> "str", s |-> s, n |-> 0]

IntValue(n) == [t |-> "int", s |-> <<>>, n |-> n]

FloatValue(n) == [t |-> "float", s |-> <<>>, n |-> n]

NoneValue == [t |-> "None", s |-> <<>>, n |-> 0]

\* a coroutine object that was never awaited
CoroutineValue == [t |-> "coroutine", s |-> <<>>, n |-> 0]

Cell(k, v) == [k |-> k, v |-> v]

\* values json.loads returns; JNull is Python's None
JNull == [t |-> "null", s |-> <<>>, m |-> <<>>]

JString(s) == [t |-> "string", s |-> s, m |-> <<>>]

JArray == [t |-> "array", s |-> <<>>, m |-> <<>>]

JObject(members) == [t |-> "object", s |-> <<>>, m |-> members]

Member(k, v) == [k |-> k, v |-> v]

\* dict.get(key, default)
DictGet(obj, key, default) ==
    IF \E i \in 1..Len(obj.m) : obj.m[i].k = key
    THEN LET i == CHOOSE i \in 1..Len(obj.m) : obj.m[i].k = key /\ \A j \in (i+1)..Len(obj.m) : obj.m[j].k # key
         IN  obj.m[i].v
    ELSE default

HasKey(obj, key) == \E i \in 1..Len(obj.m) : obj.m[i].k = key

\* the Python text (or None) a JSON string (or null) is
PyText(v) == IF v.t = "string" THEN v.s ELSE None

-----------------------------------------------------------------------------
(* str methods *)

LowerMap ==
    [c \in {"A","B","C","D","E","F","G","H","I","J","K","L","M",
            "N","O","P","Q","R","S","T","U","V","W","X","Y","Z"} |->
        CASE c = "A" -> "a" [] c = "B" -> "b" [] c = "C" -> "c" [] c = "D" -> "d"
          [] c = "E" -> "e" [] c = "F" -> "f" [] c = "G" -> "g" [] c = "H" -> "h"
          [] c = "I" -> "i" [] c = "J" -> "j" [] c = "K" -> "k" [] c = "L" -> "l"
          [] c = "M" -> "m" [] c = "N" -> "n" [] c = "O" -> "o" [] c = "P" -> "p"
          [] c = "Q" -> "q" [] c = "R" -> "r" [] c = "S" -> "s" [] c = "T" -> "t"
          [] c = "U" -> "u" [] c = "V" -> "v" [] c = "W" -> "w" [] c = "X" -> "x"
          [] c = "Y" -> "y" [] c = "Z" -> "z"]

\* str.lower()
Lower(s) == [i \in 1..Len(s) |-> IF s[i] \in DOMAIN LowerMap THEN LowerMap[s[i]] ELSE s[i]]

\* k in s
Contains(s, k) ==
    \E i \in 0..(Len(s) - Len(k)) : \A j \in 1..Len(k) : s[i + j] = k[j]

\* s.startswith(p)
StartsWith(s, p) == Len(p) <= Len(s) /\ SubSeq(s, 1, Len(p)) = p

\* s.endswith(p)
EndsWith(s, p) == Len(p) <= Len(s) /\ SubSeq(s, Len(s) - Len(p) + 1, Len(s)) = p

\* s[n:]
DropFirst(s, n) == SubSeq(s, n + 1, Len(s))

\* s[:-n]
DropLast(s, n) == SubSeq(s, 1, Len(s) - n)

Whitespace == {" ", "\n", "\t", "\r"}

\* s.strip()
Strip(s) ==
    LET keep == {i \in 1..Len(s) : s[i] \notin Whitespace}
    IN  IF keep = {} THEN <<>>
        ELSE LET lo == CHOOSE i \in keep : \A j \in keep : i <= j
                 hi == CHOOSE i \in keep : \A j \in keep : j <= i
             IN  SubSeq(s, lo, hi)

Digit(d) ==
    CASE d = 0 -> "0" [] d = 1 -> "1" [] d = 2 -> "2" [] d = 3 -> "3" [] d = 4 -> "4"
      [] d = 5 -> "5" [] d = 6 -> "6" [] d = 7 -> "7" [] d = 8 -> "8" [] d = 9 -> "9"

\* str(n) for n >= 0
RECURSIVE IntToText(_)
IntToText(n) == IF n < 10 THEN <<Digit(n)>> ELSE IntToText(n \div 10) \o <<Digit(n % 10)>>

-----------------------------------------------------------------------------
(* Bounds of the model *)

\* most rows a query returns
MaxRows == 2

\* most product ids a search returns
MaxIds == 2

(* Constants of the code *)

\* orchestrator.py 643: a str value longer than this is a text column
LongTextLength == 50

\* orchestrator.py 631: rows sampled for the visualization prompt
VizSampleSize == 5

\* orchestrator.py 775: rows sampled for the insights prompt
InsightsSampleSize == 20


-----------------------------------------------------------------------------
(* Text literals of the code *)

\* the grave accent U+0060 of a markdown code fence (the one character a
\* TLA+ string cannot hold)
BQ == "GRAVE"

\* 'analytical'
s_analytical ==
    <<"a","n","a","l","y","t","i","c","a","l">>
\* 'semantic'
s_semantic ==
    <<"s","e","m","a","n","t","i","c">>
\* 'tool'
s_tool ==
    <<"t","o","o","l">>
\* 'conversational'
s_conversational ==
    <<"c","o","n","v","e","r","s","a","t","i","o","n","a","l">>

analytical_keywords ==
    { <<"t","o","p">>   \* 'top'
    , <<"h","i","g","h","e","s","t">>   \* 'highest'
    , <<"l","o","w","e","s","t">>   \* 'lowest'
    , <<"m","o","s","t">>   \* 'most'
    , <<"l","e","a","s","t">>   \* 'least'
    , <<"b","e","s","t">>   \* 'best'
    , <<"w","o","r","s","t">>   \* 'worst'
    , <<"c","o","u","n","t">>   \* 'count'
    , <<"s","u","m">>   \* 'sum'
    , <<"a","v","e","r","a","g","e">>   \* 'average'
    , <<"t","o","t","a","l">>   \* 'total'
    , <<"l","i","s","t">>   \* 'list'
    , <<"s","h","o","w"," ","m","e">>   \* 'show me'
    , <<"n","u","m","b","e","r"," ","o","f">>   \* 'number of'
    , <<"h","o","w"," ","m","a","n","y">>   \* 'how many'
    , <<"w","h","i","c","h">>   \* 'which'
    , <<"w","h","a","t"," ","a","r","e">>   \* 'what are'
    , <<"e","x","p","e","n","s","i","v","e">>   \* 'expensive'
    , <<"c","h","e","a","p">>   \* 'cheap'
    , <<"s","e","l","l","e","r","s"," ","b","y">>   \* 'sellers by'
    , <<"p","r","o","d","u","c","t","s"," ","b","y">>   \* 'products by'
    , <<"o","r","d","e","r","s"," ","b","y">>   \* 'orders by'
    , <<"r","e","v","e","n","u","e">>   \* 'revenue'
    , <<"s","a","l","e","s">>   \* 'sales'
    }
tool_indicators ==
    { <<"w","h","a","t"," ","i","s">>   \* 'what is'
    , <<"w","h","a","t"," ","d","o","e","s">>   \* 'what does'
    , <<"d","e","f","i","n","e">>   \* 'define'
    , <<"m","e","a","n","i","n","g"," ","o","f">>   \* 'meaning of'
    , <<"t","r","a","n","s","l","a","t","e">>   \* 'translate'
    }
fallback_analytical_keywords ==
    { <<"t","o","p">>   \* 'top'
    , <<"h","i","g","h","e","s","t">>   \* 'highest'
    , <<"l","o","w","e","s","t">>   \* 'lowest'
    , <<"m","o","s","t">>   \* 'most'
    , <<"l","e","a","s","t">>   \* 'least'
    , <<"b","e","s","t">>   \* 'best'
    , <<"w","o","r","s","t">>   \* 'worst'
    , <<"c","o","u","n","t">>   \* 'count'
    , <<"s","u","m">>   \* 'sum'
    , <<"a","v","e","r","a","g","e">>   \* 'average'
    , <<"t","o","t","a","l">>   \* 'total'
    , <<"l","i","s","t">>   \* 'list'
    , <<"s","h","o","w"," ","m","e">>   \* 'show me'
    , <<"n","u","m","b","e","r"," ","o","f">>   \* 'number of'
    }

\* 'shopping'
s_shopping ==
    <<"s","h","o","p","p","i","n","g">>
\* 'greeting'
s_greeting_word ==
    <<"g","r","e","e","t","i","n","g">>
\* '{"intent": "tool"}'
d_tool ==
    <<"{","\"","i","n","t","e","n","t","\"",":"," ","\"","t","o","o","l","\"","}">>
\* '{"intent": "conversational"}'
d_conversational ==
    <<"{","\"","i","n","t","e","n","t","\"",":"," ","\"","c","o","n","v","e","r","s","a","t",
      "i","o","n","a","l","\"","}">>
\* '[]'
d_array ==
    <<"[","]">>

\* "I'm here to help! Ask me about products, sales, or anything related to the e-commerce database."
s_greeting ==
    <<"I","'","m"," ","h","e","r","e"," ","t","o"," ","h","e","l","p","!"," ","A","s","k"," ",
      "m","e"," ","a","b","o","u","t"," ","p","r","o","d","u","c","t","s",","," ","s","a","l",
      "e","s",","," ","o","r"," ","a","n","y","t","h","i","n","g"," ","r","e","l","a","t","e",
      "d"," ","t","o"," ","t","h","e"," ","e","-","c","o","m","m","e","r","c","e"," ","d","a",
      "t","a","b","a","s","e",".">>
\* 'No results found for your query. Please try rephrasing your question.'
s_no_results ==
    <<"N","o"," ","r","e","s","u","l","t","s"," ","f","o","u","n","d"," ","f","o","r"," ","y",
      "o","u","r"," ","q","u","e","r","y","."," ","P","l","e","a","s","e"," ","t","r","y"," ",
      "r","e","p","h","r","a","s","i","n","g"," ","y","o","u","r"," ","q","u","e","s","t","i",
      "o","n",".">>
\* "Here's what I found."
s_heres_what ==
    <<"H","e","r","e","'","s"," ","w","h","a","t"," ","I"," ","f","o","u","n","d",".">>
\* "Here's the information you requested."
s_heres_info ==
    <<"H","e","r","e","'","s"," ","t","h","e"," ","i","n","f","o","r","m","a","t","i","o","n",
      " ","y","o","u"," ","r","e","q","u","e","s","t","e","d",".">>
\* 'Error: '
s_error_colon ==
    <<"E","r","r","o","r",":"," ">>
\* 'Error processing your query: '
s_error_processing ==
    <<"E","r","r","o","r"," ","p","r","o","c","e","s","s","i","n","g"," ","y","o","u","r"," ",
      "q","u","e","r","y",":"," ">>
\* 'Found '
s_found ==
    <<"F","o","u","n","d"," ">>
\* ' results for your query.'
s_results_for ==
    <<" ","r","e","s","u","l","t","s"," ","f","o","r"," ","y","o","u","r"," ","q","u","e","r",
      "y",".">>
\* ' products matching your query.'
s_products_matching ==
    <<" ","p","r","o","d","u","c","t","s"," ","m","a","t","c","h","i","n","g"," ","y","o","u",
      "r"," ","q","u","e","r","y",".">>
\* '[3 backticks]'
s_fence ==
    <<BQ,BQ,BQ>>
\* '[3 backticks]json'
s_fence_json ==
    <<BQ,BQ,BQ,"j","s","o","n">>
\* '[3 backticks]sql'
s_fence_sql ==
    <<BQ,BQ,BQ,"s","q","l">>
\* 'Object of type datetime is not JSON serializable'
e_not_serializable ==
    <<"O","b","j","e","c","t"," ","o","f"," ","t","y","p","e"," ","d","a","t","e","t","i","m",
      "e"," ","i","s"," ","n","o","t"," ","J","S","O","N"," ","s","e","r","i","a","l","i","z",
      "a","b","l","e">>
\* '429 Resource has been exhausted'
e_gateway ==
    <<"4","2","9"," ","R","e","s","o","u","r","c","e"," ","h","a","s"," ","b","e","e","n"," ",
      "e","x","h","a","u","s","t","e","d">>
\* 'connection refused'
e_db_down ==
    <<"c","o","n","n","e","c","t","i","o","n"," ","r","e","f","u","s","e","d">>
\* ''
e_empty ==
    <<>>
\* 'None'
None_text ==
    <<"N","o","n","e">>

\* fast keywords [], indicators [], fallback keywords []
\* 'Hello'
q_hello ==
    <<"H","e","l","l","o">>
\* fast keywords ['top', 'best'], indicators [], fallback keywords ['top', 'best']
\* 'Top 5 best selling products'
q_top5 ==
    <<"T","o","p"," ","5"," ","b","e","s","t"," ","s","e","l","l","i","n","g"," ","p","r","o",
      "d","u","c","t","s">>
\* fast keywords ['top'], indicators ['what is'], fallback keywords ['top']
\* 'what is the top seller'
q_what_is_top ==
    <<"w","h","a","t"," ","i","s"," ","t","h","e"," ","t","o","p"," ","s","e","l","l","e","r">>
\* fast keywords [], indicators ['what is'], fallback keywords []
\* 'What is boleto?'
q_boleto ==
    <<"W","h","a","t"," ","i","s"," ","b","o","l","e","t","o","?">>
\* fast keywords [], indicators [], fallback keywords []
\* 'good products'
q_good ==
    <<"g","o","o","d"," ","p","r","o","d","u","c","t","s">>
\* fast keywords [], indicators [], fallback keywords []
\* 'products with bad rating'
q_bad_rating ==
    <<"p","r","o","d","u","c","t","s"," ","w","i","t","h"," ","b","a","d"," ","r","a","t","i",
      "n","g">>
\* fast keywords ['which'], indicators [], fallback keywords []
\* 'which sellers are reliable'
q_which ==
    <<"w","h","i","c","h"," ","s","e","l","l","e","r","s"," ","a","r","e"," ","r","e","l","i",
      "a","b","l","e">>
\* fast keywords ['revenue'], indicators ['what does'], fallback keywords []
\* 'what does revenue mean'
q_revenue_mean ==
    <<"w","h","a","t"," ","d","o","e","s"," ","r","e","v","e","n","u","e"," ","m","e","a","n">>
\* fast keywords ['top'], indicators [], fallback keywords ['top']
\* 'Please stop'
q_stop ==
    <<"P","l","e","a","s","e"," ","s","t","o","p">>
\* fast keywords ['total', 'sales'], indicators [], fallback keywords ['total']
\* 'TOTAL SALES'
q_total_upper ==
    <<"T","O","T","A","L"," ","S","A","L","E","S">>
\* stripped to '{"intent": "analytical"}'; json.loads -> {'intent': 'analytical'}
\* '{"intent": "analytical"}'
r_analytical ==
    <<"{","\"","i","n","t","e","n","t","\"",":"," ","\"","a","n","a","l","y","t","i","c","a",
      "l","\"","}">>
\* stripped to '{"intent": "semantic"}'; json.loads -> {'intent': 'semantic'}
\* '{"intent": "semantic"}'
r_semantic ==
    <<"{","\"","i","n","t","e","n","t","\"",":"," ","\"","s","e","m","a","n","t","i","c","\"",
      "}">>
\* stripped to '{"intent": "tool"}'; json.loads -> {'intent': 'tool'}
\* '[3 backticks]json\n{"intent": "tool"}\n[3 backticks]'
r_tool_fenced ==
    <<BQ,BQ,BQ,"j","s","o","n","\n","{","\"","i","n","t","e","n","t","\"",":"," ","\"","t","o",
      "o","l","\"","}","\n",BQ,BQ,BQ>>
\* stripped to '{"intent": "conversational"}'; json.loads -> {'intent': 'conversational'}
\* '  {"intent": "conversational"}\n'
r_conversational ==
    <<" "," ","{","\"","i","n","t","e","n","t","\"",":"," ","\"","c","o","n","v","e","r","s",
      "a","t","i","o","n","a","l","\"","}","\n">>
\* stripped to '{"intent": "shopping"}'; json.loads -> {'intent': 'shopping'}
\* '{"intent": "shopping"}'
r_shopping ==
    <<"{","\"","i","n","t","e","n","t","\"",":"," ","\"","s","h","o","p","p","i","n","g","\"",
      "}">>
\* stripped to '{"intent": null}'; json.loads -> {'intent': None}
\* '{"intent": null}'
r_null_intent ==
    <<"{","\"","i","n","t","e","n","t","\"",":"," ","n","u","l","l","}">>
\* stripped to '{"reasoning": "greeting"}'; json.loads -> {'reasoning': 'greeting'}
\* '{"reasoning": "greeting"}'
r_no_intent ==
    <<"{","\"","r","e","a","s","o","n","i","n","g","\"",":"," ","\"","g","r","e","e","t","i",
      "n","g","\"","}">>
\* stripped to 'analytical'; JSONDecodeError
\* 'analytical'
r_prose ==
    <<"a","n","a","l","y","t","i","c","a","l">>
\* stripped to '[]'; json.loads -> []
\* '[3 backticks]\n[]\n[3 backticks]'
r_array ==
    <<BQ,BQ,BQ,"\n","[","]","\n",BQ,BQ,BQ>>
\* stripped to 'JSON\n{"intent": "tool"}'; JSONDecodeError
\* '[3 backticks]JSON\n{"intent": "tool"}\n[3 backticks]'
r_upper_fence ==
    <<BQ,BQ,BQ,"J","S","O","N","\n","{","\"","i","n","t","e","n","t","\"",":"," ","\"","t","o",
      "o","l","\"","}","\n",BQ,BQ,BQ>>
\* stripped to ''; JSONDecodeError
\* ''
r_blank ==
    <<>>

\* 'products with bad reviews'
q_enhanced ==
    <<"p","r","o","d","u","c","t","s"," ","w","i","t","h"," ","b","a","d"," ","r","e","v","i",
      "e","w","s">>
\* 'SELECT product_id FROM products LIMIT 5'
sql_plain ==
    <<"S","E","L","E","C","T"," ","p","r","o","d","u","c","t","_","i","d"," ","F","R","O","M",
      " ","p","r","o","d","u","c","t","s"," ","L","I","M","I","T"," ","5">>
\* 'Database Schema:\n\nTable: products\n'
s_schema ==
    <<"D","a","t","a","b","a","s","e"," ","S","c","h","e","m","a",":","\n","\n","T","a","b","l",
      "e",":"," ","p","r","o","d","u","c","t","s","\n">>
\* 'SQL syntax error: '
s_sql_syntax_error ==
    <<"S","Q","L"," ","s","y","n","t","a","x"," ","e","r","r","o","r",":"," ">>
\* 'Database error - table or column not found: '
s_not_found_error ==
    <<"D","a","t","a","b","a","s","e"," ","e","r","r","o","r"," ","-"," ","t","a","b","l","e",
      " ","o","r"," ","c","o","l","u","m","n"," ","n","o","t"," ","f","o","u","n","d",":"," ">>
\* 'Error executing query: '
s_executing_error ==
    <<"E","r","r","o","r"," ","e","x","e","c","u","t","i","n","g"," ","q","u","e","r","y",":",
      " ">>
\* 'Error performing semantic search: '
s_semantic_error ==
    <<"E","r","r","o","r"," ","p","e","r","f","o","r","m","i","n","g"," ","s","e","m","a","n",
      "t","i","c"," ","s","e","a","r","c","h",":"," ">>
\* 'syntax error'
s_syntax_error ==
    <<"s","y","n","t","a","x"," ","e","r","r","o","r">>
\* 'invalid'
s_invalid ==
    <<"i","n","v","a","l","i","d">>
\* 'does not exist'
s_does_not_exist ==
    <<"d","o","e","s"," ","n","o","t"," ","e","x","i","s","t">>
\* 'relation'
s_relation ==
    <<"r","e","l","a","t","i","o","n">>
\* 'relation "order" does not exist'
e_missing_relation ==
    <<"r","e","l","a","t","i","o","n"," ","\"","o","r","d","e","r","\""," ","d","o","e","s"," ",
      "n","o","t"," ","e","x","i","s","t">>
\* 'syntax error at or near "FORM"'
e_syntax ==
    <<"s","y","n","t","a","x"," ","e","r","r","o","r"," ","a","t"," ","o","r"," ","n","e","a",
      "r"," ","\"","F","O","R","M","\"">>
\* 'invalid reference: column "x" does not exist'
e_invalid_missing ==
    <<"i","n","v","a","l","i","d"," ","r","e","f","e","r","e","n","c","e",":"," ","c","o","l",
      "u","m","n"," ","\"","x","\""," ","d","o","e","s"," ","n","o","t"," ","e","x","i","s","t">>
\* 'product_id'
k_product_id ==
    <<"p","r","o","d","u","c","t","_","i","d">>
\* 'avg_score'
k_avg_score ==
    <<"a","v","g","_","s","c","o","r","e">>
\* 'reviews'
k_reviews ==
    <<"r","e","v","i","e","w","s">>
\* 'shipped_at'
k_shipped_at ==
    <<"s","h","i","p","p","e","d","_","a","t">>
\* 'token'
k_token ==
    <<"t","o","k","e","n">>
\* 'text'
k_text ==
    <<"t","e","x","t">>
\* 'Arrived late and the box was crushed, but the seller refunded'
v_review ==
    <<"A","r","r","i","v","e","d"," ","l","a","t","e"," ","a","n","d"," ","t","h","e"," ","b",
      "o","x"," ","w","a","s"," ","c","r","u","s","h","e","d",","," ","b","u","t"," ","t","h",
      "e"," ","s","e","l","l","e","r"," ","r","e","f","u","n","d","e","d">>
\* '2018-01-02T03:04:05'
v_iso ==
    <<"2","0","1","8","-","0","1","-","0","2","T","0","3",":","0","4",":","0","5">>
\* enhancer gives 'products with bad reviews'; SQL clean-up gives 'products with bad reviews'
\* 'products with bad reviews'
r_enh_plain ==
    <<"p","r","o","d","u","c","t","s"," ","w","i","t","h"," ","b","a","d"," ","r","e","v","i",
      "e","w","s">>
\* enhancer gives 'products with bad reviews'; SQL clean-up gives 'products with bad reviews'
\* '[3 backticks]\nproducts with bad reviews\n[3 backticks]'
r_enh_fenced ==
    <<BQ,BQ,BQ,"\n","p","r","o","d","u","c","t","s"," ","w","i","t","h"," ","b","a","d"," ","r",
      "e","v","i","e","w","s","\n",BQ,BQ,BQ>>
\* enhancer gives ''; SQL clean-up gives ''
\* '[3 backticks]'
r_enh_only_fence ==
    <<BQ,BQ,BQ>>
\* enhancer gives ''; SQL clean-up gives ''
\* ' \n'
r_enh_blank ==
    <<" ","\n">>
\* enhancer gives 'SELECT product_id FROM products LIMIT 5;'; SQL clean-up gives 'SELECT product_id FROM products LIMIT 5'
\* 'SELECT product_id FROM products LIMIT 5;'
r_sql_plain ==
    <<"S","E","L","E","C","T"," ","p","r","o","d","u","c","t","_","i","d"," ","F","R","O","M",
      " ","p","r","o","d","u","c","t","s"," ","L","I","M","I","T"," ","5",";">>
\* enhancer gives 'SELECT product_id FROM products LIMIT 5;'; SQL clean-up gives 'SELECT product_id FROM products LIMIT 5'
\* '[3 backticks]sql\nSELECT product_id FROM products LIMIT 5;\n[3 backticks]'
r_sql_fenced ==
    <<BQ,BQ,BQ,"s","q","l","\n","S","E","L","E","C","T"," ","p","r","o","d","u","c","t","_","i",
      "d"," ","F","R","O","M"," ","p","r","o","d","u","c","t","s"," ","L","I","M","I","T"," ",
      "5",";","\n",BQ,BQ,BQ>>
\* enhancer gives ''; SQL clean-up gives ''
\* ''
r_sql_blank ==
    <<>>

\* 'OpenAI API quota/rate limit exceeded. Please check your OpenAI API usage and billing. Error: '
s_quota_prefix ==
    <<"O","p","e","n","A","I"," ","A","P","I"," ","q","u","o","t","a","/","r","a","t","e"," ",
      "l","i","m","i","t"," ","e","x","c","e","e","d","e","d","."," ","P","l","e","a","s","e",
      " ","c","h","e","c","k"," ","y","o","u","r"," ","O","p","e","n","A","I"," ","A","P","I",
      " ","u","s","a","g","e"," ","a","n","d"," ","b","i","l","l","i","n","g","."," ","E","r",
      "r","o","r",":"," ">>
\* 'OpenAI API authentication failed. Please check your OPENAI_API_KEY in .env file. Error: '
s_auth_prefix ==
    <<"O","p","e","n","A","I"," ","A","P","I"," ","a","u","t","h","e","n","t","i","c","a","t",
      "i","o","n"," ","f","a","i","l","e","d","."," ","P","l","e","a","s","e"," ","c","h","e",
      "c","k"," ","y","o","u","r"," ","O","P","E","N","A","I","_","A","P","I","_","K","E","Y",
      " ","i","n"," ",".","e","n","v"," ","f","i","l","e","."," ","E","r","r","o","r",":"," ">>
\* 'Vector database is empty or not initialized. Please run the database/build_vector_db.py script to populate the vector database. Error: '
s_empty_prefix ==
    <<"V","e","c","t","o","r"," ","d","a","t","a","b","a","s","e"," ","i","s"," ","e","m","p",
      "t","y"," ","o","r"," ","n","o","t"," ","i","n","i","t","i","a","l","i","z","e","d",".",
      " ","P","l","e","a","s","e"," ","r","u","n"," ","t","h","e"," ","d","a","t","a","b","a",
      "s","e","/","b","u","i","l","d","_","v","e","c","t","o","r","_","d","b",".","p","y"," ",
      "s","c","r","i","p","t"," ","t","o"," ","p","o","p","u","l","a","t","e"," ","t","h","e",
      " ","v","e","c","t","o","r"," ","d","a","t","a","b","a","s","e","."," ","E","r","r","o",
      "r",":"," ">>
\* 'quota'
s_quota ==
    <<"q","u","o","t","a">>
\* '429'
s_429 ==
    <<"4","2","9">>
\* 'rate limit'
s_rate_limit ==
    <<"r","a","t","e"," ","l","i","m","i","t">>
\* 'api key'
s_api_key ==
    <<"a","p","i"," ","k","e","y">>
\* 'authentication'
s_authentication ==
    <<"a","u","t","h","e","n","t","i","c","a","t","i","o","n">>
\* '401'
s_401 ==
    <<"4","0","1">>
\* 'empty'
s_empty_word ==
    <<"e","m","p","t","y">>
\* 'not found'
s_not_found ==
    <<"n","o","t"," ","f","o","u","n","d">>
\* 'Incorrect API key provided'
e_auth ==
    <<"I","n","c","o","r","r","e","c","t"," ","A","P","I"," ","k","e","y"," ","p","r","o","v",
      "i","d","e","d">>
\* 'Collection products not found'
e_collection ==
    <<"C","o","l","l","e","c","t","i","o","n"," ","p","r","o","d","u","c","t","s"," ","n","o",
      "t"," ","f","o","u","n","d">>
\* 'Request timed out'
e_timeout ==
    <<"R","e","q","u","e","s","t"," ","t","i","m","e","d"," ","o","u","t">>
\* 'wikipedia_lookup'
s_wikipedia_lookup ==
    <<"w","i","k","i","p","e","d","i","a","_","l","o","o","k","u","p">>
\* 'get_definition'
s_get_definition ==
    <<"g","e","t","_","d","e","f","i","n","i","t","i","o","n">>
\* 'Unknown tool: '
s_unknown_tool ==
    <<"U","n","k","n","o","w","n"," ","t","o","o","l",":"," ">>
\* 'Error: Could not parse tool request'
s_could_not_parse ==
    <<"E","r","r","o","r",":"," ","C","o","u","l","d"," ","n","o","t"," ","p","a","r","s","e",
      " ","t","o","o","l"," ","r","e","q","u","e","s","t">>
\* 'Error getting definition: '
s_definition_error ==
    <<"E","r","r","o","r"," ","g","e","t","t","i","n","g"," ","d","e","f","i","n","i","t","i",
      "o","n",":"," ">>
\* 'translate_to_english'
s_translate ==
    <<"t","r","a","n","s","l","a","t","e","_","t","o","_","e","n","g","l","i","s","h">>
\* 'boleto'
s_boleto ==
    <<"b","o","l","e","t","o">>
\* 'frete'
s_frete ==
    <<"f","r","e","t","e">>
\* "'list' object has no attribute 'get'"
e_list_get ==
    <<"'","l","i","s","t","'"," ","o","b","j","e","c","t"," ","h","a","s"," ","n","o"," ","a",
      "t","t","r","i","b","u","t","e"," ","'","g","e","t","'">>
\* "'str' object has no attribute 'get'"
e_str_get ==
    <<"'","s","t","r","'"," ","o","b","j","e","c","t"," ","h","a","s"," ","n","o"," ","a","t",
      "t","r","i","b","u","t","e"," ","'","g","e","t","'">>
\* "'NoneType' object has no attribute 'get'"
e_none_get ==
    <<"'","N","o","n","e","T","y","p","e","'"," ","o","b","j","e","c","t"," ","h","a","s"," ",
      "n","o"," ","a","t","t","r","i","b","u","t","e"," ","'","g","e","t","'">>
\* 'Boleto is a Brazilian payment slip.'
s_definition ==
    <<"B","o","l","e","t","o"," ","i","s"," ","a"," ","B","r","a","z","i","l","i","a","n"," ",
      "p","a","y","m","e","n","t"," ","s","l","i","p",".">>
\* 'Boleto is a Brazilian payment slip.\n'
r_definition ==
    <<"B","o","l","e","t","o"," ","i","s"," ","a"," ","B","r","a","z","i","l","i","a","n"," ",
      "p","a","y","m","e","n","t"," ","s","l","i","p",".","\n">>
\* stripped to '{"tool": "wikipedia_lookup", "parameters": {"topic": "boleto"}}'; json.loads -> {'tool': 'wikipedia_lookup', 'parameters': {'topic': 'boleto'}}
\* '{"tool": "wikipedia_lookup", "parameters": {"topic": "boleto"}}'
r_tool_wiki ==
    <<"{","\"","t","o","o","l","\"",":"," ","\"","w","i","k","i","p","e","d","i","a","_","l",
      "o","o","k","u","p","\"",","," ","\"","p","a","r","a","m","e","t","e","r","s","\"",":",
      " ","{","\"","t","o","p","i","c","\"",":"," ","\"","b","o","l","e","t","o","\"","}","}">>
\* stripped to '{"tool": "get_definition", "parameters": {"term": "frete"}}'; json.loads -> {'tool': 'get_definition', 'parameters': {'term': 'frete'}}
\* '[3 backticks]json\n{"tool": "get_definition", "parameters": {"term": "frete"}}\n[3 backticks]'
r_tool_definition ==
    <<BQ,BQ,BQ,"j","s","o","n","\n","{","\"","t","o","o","l","\"",":"," ","\"","g","e","t","_",
      "d","e","f","i","n","i","t","i","o","n","\"",","," ","\"","p","a","r","a","m","e","t","e",
      "r","s","\"",":"," ","{","\"","t","e","r","m","\"",":"," ","\"","f","r","e","t","e","\"",
      "}","}","\n",BQ,BQ,BQ>>
\* '{"tool": "get_definition", "parameters": {"term": "frete"}}'
d_tool_definition ==
    <<"{","\"","t","o","o","l","\"",":"," ","\"","g","e","t","_","d","e","f","i","n","i","t",
      "i","o","n","\"",","," ","\"","p","a","r","a","m","e","t","e","r","s","\"",":"," ","{",
      "\"","t","e","r","m","\"",":"," ","\"","f","r","e","t","e","\"","}","}">>
\* stripped to '{"tool": "translate_to_english", "parameters": {}}'; json.loads -> {'tool': 'translate_to_english', 'parameters': {}}
\* '{"tool": "translate_to_english", "parameters": {}}'
r_tool_unknown ==
    <<"{","\"","t","o","o","l","\"",":"," ","\"","t","r","a","n","s","l","a","t","e","_","t",
      "o","_","e","n","g","l","i","s","h","\"",","," ","\"","p","a","r","a","m","e","t","e","r",
      "s","\"",":"," ","{","}","}">>
\* stripped to '{"tool": "wikipedia_lookup", "parameters": "boleto"}'; json.loads -> {'tool': 'wikipedia_lookup', 'parameters': 'boleto'}
\* '{"tool": "wikipedia_lookup", "parameters": "boleto"}'
r_tool_bad_parameters ==
    <<"{","\"","t","o","o","l","\"",":"," ","\"","w","i","k","i","p","e","d","i","a","_","l",
      "o","o","k","u","p","\"",","," ","\"","p","a","r","a","m","e","t","e","r","s","\"",":",
      " ","\"","b","o","l","e","t","o","\"","}">>
\* stripped to '{"tool": "wikipedia_lookup"}'; json.loads -> {'tool': 'wikipedia_lookup'}
\* '{"tool": "wikipedia_lookup"}'
r_tool_no_parameters ==
    <<"{","\"","t","o","o","l","\"",":"," ","\"","w","i","k","i","p","e","d","i","a","_","l",
      "o","o","k","u","p","\"","}">>
\* stripped to '{}'; json.loads -> {}
\* '{}'
r_empty_object ==
    <<"{","}">>

\* 'bar'
s_bar ==
    <<"b","a","r">>
\* 'table'
s_table ==
    <<"t","a","b","l","e">>
\* 'text'
s_text ==
    <<"t","e","x","t">>
\* 'line'
s_line ==
    <<"l","i","n","e">>
\* 'map'
s_map ==
    <<"m","a","p">>
\* 'pie'
s_pie ==
    <<"p","i","e">>
\* '_id'
s_id_suffix ==
    <<"_","i","d">>
\* 'Object of type UUID is not JSON serializable'
e_uuid_not_serializable ==
    <<"O","b","j","e","c","t"," ","o","f"," ","t","y","p","e"," ","U","U","I","D"," ","i","s",
      " ","n","o","t"," ","J","S","O","N"," ","s","e","r","i","a","l","i","z","a","b","l","e">>
rating_words ==
    { <<"r","a","t","i","n","g">>   \* 'rating'
    , <<"s","c","o","r","e">>   \* 'score'
    , <<"r","e","v","i","e","w"," ","s","c","o","r","e">>   \* 'review score'
    , <<"b","a","d"," ","r","a","t","i","n","g">>   \* 'bad rating'
    , <<"g","o","o","d"," ","r","a","t","i","n","g">>   \* 'good rating'
    , <<"l","o","w"," ","r","a","t","i","n","g">>   \* 'low rating'
    , <<"h","i","g","h"," ","r","a","t","i","n","g">>   \* 'high rating'
    }
\* stripped to '{"type": "bar", "x_axis": "product_id", "y_axis": "avg_score"}'; json.loads -> {'type': 'bar', 'x_axis': 'product_id', 'y_axis': 'avg_score'}
\* '{"type": "bar", "x_axis": "product_id", "y_axis": "avg_score"}'
r_viz_bar ==
    <<"{","\"","t","y","p","e","\"",":"," ","\"","b","a","r","\"",","," ","\"","x","_","a","x",
      "i","s","\"",":"," ","\"","p","r","o","d","u","c","t","_","i","d","\"",","," ","\"","y",
      "_","a","x","i","s","\"",":"," ","\"","a","v","g","_","s","c","o","r","e","\"","}">>
\* stripped to '{"type": "table", "x_axis": "product_id", "y_axis": "reviews"}'; json.loads -> {'type': 'table', 'x_axis': 'product_id', 'y_axis': 'reviews'}
\* '[3 backticks]json\n{"type": "table", "x_axis": "product_id", "y_axis": "reviews"}\n[3 backticks]'
r_viz_table ==
    <<BQ,BQ,BQ,"j","s","o","n","\n","{","\"","t","y","p","e","\"",":"," ","\"","t","a","b","l",
      "e","\"",","," ","\"","x","_","a","x","i","s","\"",":"," ","\"","p","r","o","d","u","c",
      "t","_","i","d","\"",","," ","\"","y","_","a","x","i","s","\"",":"," ","\"","r","e","v",
      "i","e","w","s","\"","}","\n",BQ,BQ,BQ>>
\* '{"type": "table", "x_axis": "product_id", "y_axis": "reviews"}'
d_viz_table ==
    <<"{","\"","t","y","p","e","\"",":"," ","\"","t","a","b","l","e","\"",","," ","\"","x","_",
      "a","x","i","s","\"",":"," ","\"","p","r","o","d","u","c","t","_","i","d","\"",","," ",
      "\"","y","_","a","x","i","s","\"",":"," ","\"","r","e","v","i","e","w","s","\"","}">>
\* stripped to '{"type": "pie"}'; json.loads -> {'type': 'pie'}
\* '{"type": "pie"}'
r_viz_pie ==
    <<"{","\"","t","y","p","e","\"",":"," ","\"","p","i","e","\"","}">>
\* stripped to '{"x_axis": "product_id"}'; json.loads -> {'x_axis': 'product_id'}
\* '{"x_axis": "product_id"}'
r_viz_no_type ==
    <<"{","\"","x","_","a","x","i","s","\"",":"," ","\"","p","r","o","d","u","c","t","_","i",
      "d","\"","}">>
\* stripped to 'null'; json.loads -> None
\* 'null'
r_null ==
    <<"n","u","l","l">>
\* insights_agent stores '* **Top Seller:** p1 leads.\n3. Low scores: p2 trails.'
\* '* **Top Seller:** p1 leads.\n\n\n  3. Low scores: p2 trails.'
r_ins_bullets ==
    <<"*"," ","*","*","T","o","p"," ","S","e","l","l","e","r",":","*","*"," ","p","1"," ","l",
      "e","a","d","s",".","\n","\n","\n"," "," ","3","."," ","L","o","w"," ","s","c","o","r",
      "e","s",":"," ","p","2"," ","t","r","a","i","l","s",".">>
\* insights_agent stores '**Top Seller:** p1 leads.\n\xe2\u20ac\xa2 Scores are low.'
\* '**Top Seller:** p1 leads.\nScores are low.\n'
r_ins_plain ==
    <<"*","*","T","o","p"," ","S","e","l","l","e","r",":","*","*"," ","p","1"," ","l","e","a",
      "d","s",".","\n","S","c","o","r","e","s"," ","a","r","e"," ","l","o","w",".","\n">>
\* insights_agent stores '- **Top Seller:** p1 leads.'
\* '[3 backticks]\n- **Top Seller:** p1 leads.\n[3 backticks]'
r_ins_fenced ==
    <<BQ,BQ,BQ,"\n","-"," ","*","*","T","o","p"," ","S","e","l","l","e","r",":","*","*"," ","p",
      "1"," ","l","e","a","d","s",".","\n",BQ,BQ,BQ>>

\* '...'
s_ellipsis ==
    <<".",".",".">>
\* 'timeout'
s_timeout ==
    <<"t","i","m","e","o","u","t">>
\* 'connection'
s_connection ==
    <<"c","o","n","n","e","c","t","i","o","n">>
\* 'max retries'
s_max_retries ==
    <<"m","a","x"," ","r","e","t","r","i","e","s">>
\* "Wikipedia article not found or connection timed out for '"
s_wiki_not_found_prefix ==
    <<"W","i","k","i","p","e","d","i","a"," ","a","r","t","i","c","l","e"," ","n","o","t"," ",
      "f","o","u","n","d"," ","o","r"," ","c","o","n","n","e","c","t","i","o","n"," ","t","i",
      "m","e","d"," ","o","u","t"," ","f","o","r"," ","'">>
\* "'. Please try again or use a different search term."
s_wiki_not_found_suffix ==
    <<"'","."," ","P","l","e","a","s","e"," ","t","r","y"," ","a","g","a","i","n"," ","o","r",
      " ","u","s","e"," ","a"," ","d","i","f","f","e","r","e","n","t"," ","s","e","a","r","c",
      "h"," ","t","e","r","m",".">>
\* "HTTPSConnectionPool(host='en.wikipedia.org', port=443): Read timed out."
e_read_timeout ==
    <<"H","T","T","P","S","C","o","n","n","e","c","t","i","o","n","P","o","o","l","(","h","o",
      "s","t","=","'","e","n",".","w","i","k","i","p","e","d","i","a",".","o","r","g","'",",",
      " ","p","o","r","t","=","4","4","3",")",":"," ","R","e","a","d"," ","t","i","m","e","d",
      " ","o","u","t",".">>
\* '504 Gateway Timeout'
e_gateway_timeout ==
    <<"5","0","4"," ","G","a","t","e","w","a","y"," ","T","i","m","e","o","u","t">>
\* 'Expecting value: line 1 column 1 (char 0)'
e_bad_json ==
    <<"E","x","p","e","c","t","i","n","g"," ","v","a","l","u","e",":"," ","l","i","n","e"," ",
      "1"," ","c","o","l","u","m","n"," ","1"," ","(","c","h","a","r"," ","0",")">>


-----------------------------------------------------------------------------
(* Inputs *)

\* request.message
Queries ==
    {q_hello, q_top5, q_what_is_top, q_boleto, q_good, q_bad_rating, q_which,
     q_revenue_mean, q_stop, q_total_upper}

\* dicts get_context can return: {} / a JSON-serializable history / a dict
\* holding a value json.dumps cannot encode (model_dump() of a response
\* carrying a datetime)
EmptyContext == [keys |-> {}, serializable |-> TRUE]

HistoryContext == [keys |-> {"messages"}, serializable |-> TRUE]

DatetimeContext == [keys |-> {"created_at"}, serializable |-> FALSE]

MemoryContexts == {EmptyContext, HistoryContext, DatetimeContext}

\* what a call of the Text-Generation Gateway gives: response.text, or an
\* exception with message msg
Reply(text) == [ok |-> TRUE, text |-> text, msg |-> <<>>]

Failure(msg) == [ok |-> FALSE, text |-> <<>>, msg |-> msg]

GatewayFailures == {Failure(e_gateway)}

RouterReplies ==
    {Reply(t) : t \in {r_analytical, r_semantic, r_tool_fenced, r_conversational,
                       r_shopping, r_null_intent, r_no_intent, r_prose, r_array,
                       r_upper_fence, r_blank}}
      \cup GatewayFailures

-----------------------------------------------------------------------------
(* json *)

JSONDecodeError == [t |-> "JSONDecodeError", s |-> <<>>, m |-> <<>>]

\* json.loads on the texts the replies strip to; any other text of the model
\* is not a JSON document
JsonLoads(t) ==
    CASE t = r_analytical -> JObject(<<Member("intent", JString(s_analytical))>>)
      [] t = r_semantic -> JObject(<<Member("intent", JString(s_semantic))>>)
      [] t = d_tool -> JObject(<<Member("intent", JString(s_tool))>>)
      [] t = d_conversational -> JObject(<<Member("intent", JString(s_conversational))>>)
      [] t = r_shopping -> JObject(<<Member("intent", JString(s_shopping))>>)
      [] t = r_null_intent -> JObject(<<Member("intent", JNull)>>)
      [] t = r_no_intent -> JObject(<<Member("reasoning", JString(s_greeting_word))>>)
      [] t = d_array -> JArray
      [] t = r_null -> JNull
      [] t = r_tool_wiki ->
            JObject(<<Member("tool", JString(s_wikipedia_lookup)),
                      Member("parameters", JObject(<<Member("topic", JString(s_boleto))>>))>>)
      [] t = d_tool_definition ->
            JObject(<<Member("tool", JString(s_get_definition)),
                      Member("parameters", JObject(<<Member("term", JString(s_frete))>>))>>)
      [] t = r_tool_unknown ->
            JObject(<<Member("tool", JString(s_translate)),
                      Member("parameters", JObject(<<>>))>>)
      [] t = r_tool_bad_parameters ->
            JObject(<<Member("tool", JString(s_wikipedia_lookup)),
                      Member("parameters", JString(s_boleto))>>)
      [] t = r_tool_no_parameters -> JObject(<<Member("tool", JString(s_wikipedia_lookup))>>)
      [] t = r_empty_object -> JObject(<<>>)
      [] t = r_viz_bar ->
            JObject(<<Member("type", JString(s_bar)), Member("x_axis", JString(k_product_id)),
                      Member("y_axis", JString(k_avg_score))>>)
      [] t = d_viz_table ->
            JObject(<<Member("type", JString(s_table)), Member("x_axis", JString(k_product_id)),
                      Member("y_axis", JString(k_reviews))>>)
      [] t = r_viz_pie -> JObject(<<Member("type", JString(s_pie))>>)
      [] t = r_viz_no_type -> JObject(<<Member("x_axis", JString(k_product_id))>>)
      [] OTHER -> JSONDecodeError

\* json.dumps(memory_context, indent=2) raises TypeError
JsonDumpsRaises(mc) == ~mc.serializable

\* bool(memory_context)
Truthy(mc) == mc.keys # {}

\* a test that finds every text empty
TruthyText_Never(t) == FALSE

\* bool(text) for Optional[str]
TruthyText(t) == t # None /\ t # <<>>

-----------------------------------------------------------------------------
(* router_agent *)

\* a fast path that tests the shorter keyword list of the except branches
FastPathMatches_ShortList(q) ==
    /\ \E keyword \in fallback_analytical_keywords : Contains(Lower(q), keyword)
    /\ ~ \E indicator \in tool_indicators : Contains(Lower(q), indicator)

\* the fast path's test (orchestrator.py 127-139)
FastPathMatches(q) ==
    LET query_lower == Lower(q)
    IN  /\ \E keyword \in analytical_keywords : Contains(query_lower, keyword)
        /\ ~ \E indicator \in tool_indicators : Contains(query_lower, indicator)

\* except branches that re-apply the fast path's test
FallbackIntent_FastTest(q) ==
    IF FastPathMatches(q) THEN s_analytical ELSE s_conversational

\* the keyword test of the two except branches (261-267, 274-280)
FallbackIntent(q) ==
    LET query_lower == Lower(q)
    IN  IF \E keyword \in fallback_analytical_keywords : Contains(query_lower, keyword)
        THEN s_analytical
        ELSE s_conversational

\* removal of markdown code blocks (229-241)
StripJsonFences(text) ==
    LET t0 == Strip(text)
        t1 == IF StartsWith(t0, s_fence_json) THEN DropFirst(t0, 7) ELSE t0
        t2 == IF StartsWith(t1, s_fence) THEN DropFirst(t1, 3) ELSE t1
        t3 == IF EndsWith(t2, s_fence) THEN DropLast(t2, 3) ELSE t2
    IN  Strip(t3)

\* state['intent'] after the generative path (221-280)
RouterClassify(q, reply) ==
    IF ~reply.ok
    THEN FallbackIntent(q)                             \* except Exception
    ELSE LET parsed_response == JsonLoads(StripJsonFences(reply.text))
         IN  IF parsed_response = JSONDecodeError
             THEN FallbackIntent(q)                    \* except json.JSONDecodeError
             ELSE IF parsed_response.t # "object"
             THEN FallbackIntent(q)                    \* AttributeError: no .get
             ELSE PyText(DictGet(parsed_response, "intent", JString(s_conversational)))

-----------------------------------------------------------------------------
(* the graph (orchestrator.py 883-933) *)

valid_intents == {s_analytical, s_semantic, s_tool, s_conversational}

route_after_router(i) == IF i \notin valid_intents THEN s_conversational ELSE i

\* a mapping that sends conversational requests to the tool node
ConditionalEdge_ToTool(label) ==
    CASE label = s_analytical -> "analytical"
      [] label = s_semantic -> "semantic"
      [] label = s_tool -> "tool"
      [] label = s_conversational -> "tool"

\* add_conditional_edges("router", route_after_router, {...})
ConditionalEdge(label) ==
    CASE label = s_analytical -> "analytical"
      [] label = s_semantic -> "semantic"
      [] label = s_tool -> "tool"
      [] label = s_conversational -> "END"

\* a graph whose tool node has no edge to END
Edge_NoToolEnd(node) ==
    CASE node = "analytical" -> "visualizer"
      [] node = "semantic" -> "visualizer"
      [] node = "tool" -> "tool_finished"
      [] node = "visualizer" -> "insights_generator"
      [] node = "insights_generator" -> "END"

\* add_edge(node, ...)
Edge(node) ==
    CASE node = "analytical" -> "visualizer"
      [] node = "semantic" -> "visualizer"
      [] node = "tool" -> "END"
      [] node = "visualizer" -> "insights_generator"
      [] node = "insights_generator" -> "END"

\* an external call, as logged: the service, the caller, the text passed,
\* whether it returned, and the text it returned or the message it raised
Gateway(by, arg, reply) ==
    [svc |-> "gateway", by |-> by, arg |-> arg, ok |-> reply.ok,
     out |-> IF reply.ok THEN reply.text ELSE reply.msg]

Relational(by, arg, outcome) ==
    [svc |-> "relational", by |-> by, arg |-> arg, ok |-> outcome.ok, out |-> outcome.msg]

Memory(by, ok) == [svc |-> "memory", by |-> by, arg |-> <<>>, ok |-> ok, out |-> <<>>]

-----------------------------------------------------------------------------
(* enhance_query_with_context (orchestrator.py 34-111) *)

\* index of the first / last "\n" of t, 0 if there is none
FirstNewline(t) ==
    LET nls == {i \in 1..Len(t) : t[i] = "\n"}
    IN  IF nls = {} THEN 0 ELSE CHOOSE i \in nls : \A j \in nls : i <= j

LastNewline(t) ==
    LET nls == {i \in 1..Len(t) : t[i] = "\n"}
    IN  IF nls = {} THEN 0 ELSE CHOOSE i \in nls : \A j \in nls : j <= i

\* 92-99 (and 822-828): drop the first line, and the last if it is a fence
StripFenceLines(t) ==
    IF ~StartsWith(t, s_fence) THEN t
    ELSE IF FirstNewline(t) = 0 THEN <<>>                  \* lines[1:] = []
    ELSE LET rest == DropFirst(t, FirstNewline(t))         \* "\n".join(lines[1:])
             last == DropFirst(rest, LastNewline(rest))    \* lines[-1]
         IN  IF Strip(last) = s_fence
             THEN Strip(SubSeq(rest, 1, LastNewline(rest) - 1))
             ELSE Strip(rest)

\* an enhancer without the early returns
EnhancerSkips_Never(mc) == FALSE

\* 50-57: the early returns, taken before any prompt is built
EnhancerSkips(mc) == ~Truthy(mc)

\* 55: json.dumps(memory_context, indent=2), outside the try
EnhancerRaises(mc) == Truthy(mc) /\ JsonDumpsRaises(mc)

\* an enhancer without the empty-output test of lines 101-103
EnhancedQuery_KeepsEmpty(q, reply) ==
    IF ~reply.ok THEN q ELSE StripFenceLines(Strip(reply.text))

\* 81-111: the value returned once the gateway has been called with `reply`
EnhancedQuery(q, reply) ==
    IF ~reply.ok THEN q
    ELSE LET enhanced_query == StripFenceLines(Strip(reply.text))
         IN  IF enhanced_query = <<>> THEN q ELSE enhanced_query

\* the value enhance_query_with_context returns
enhance_query_with_context(q, mc, reply) ==
    IF EnhancerSkips(mc) THEN q ELSE EnhancedQuery(q, reply)

\* the calls enhance_query_with_context makes
EnhancerCalls(q, mc, reply) ==
    IF EnhancerSkips(mc) THEN <<>> ELSE <<Gateway("enhancer", q, reply)>>

EnhancerReplies ==
    {Reply(t) : t \in {r_enh_plain, r_enh_fenced, r_enh_only_fence, r_enh_blank}}
      \cup GatewayFailures

-----------------------------------------------------------------------------
(* database.py *)

DecimalValue(n) == [t |-> "Decimal", s |-> <<>>, n |-> n]

\* a datetime.datetime whose isoformat() is iso
DatetimeValue(iso) == [t |-> "datetime", s |-> iso, n |-> 0]

\* a uuid.UUID: execute_query passes it through, json.dumps cannot encode it
UuidValue == [t |-> "UUID", s |-> <<>>, n |-> 0]

\* 123-132: the conversion of one value
NormalizeValue(v) ==
    CASE v.t = "Decimal" -> FloatValue(v.n)
      [] v.t = "datetime" -> StrValue(v.s)
      [] OTHER -> v

\* 119-135: rows to list of dicts
NormalizeRows(rows) ==
    [i \in 1..Len(rows) |->
        [j \in 1..Len(rows[i]) |-> Cell(rows[i][j].k, NormalizeValue(rows[i][j].v))]]

\* what the Relational Query Service gives: rows (asyncpg records), or an
\* exception with message msg
Rows(rows) == [ok |-> TRUE, rows |-> rows, msg |-> <<>>]

DbFailure(msg) == [ok |-> FALSE, rows |-> <<>>, msg |-> msg]

DbFailures == {DbFailure(m) : m \in {e_db_down, e_missing_relation, e_syntax, e_invalid_missing}}

\* a call of execute_query, as logged: the number of rows it returned, or the
\* message it raised
Executed(arg, outcome) ==
    [svc |-> "relational", by |-> "execute_query", arg |-> arg, ok |-> outcome.ok,
     out |-> IF outcome.ok THEN IntToText(Len(outcome.rows)) ELSE outcome.msg]

\* the i-th row of a product aggregation
ProductRow(i) ==
    <<Cell(k_product_id, StrValue(<<"p">> \o IntToText(i))),
      Cell(k_avg_score, DecimalValue(i)),
      Cell(k_reviews, StrValue(v_review)),
      Cell(k_shipped_at, DatetimeValue(v_iso))>>

\* a row holding a uuid column
TokenRow == <<Cell(k_product_id, StrValue(<<"p", "0">>)), Cell(k_token, UuidValue)>>

\* a product without reviews: AVG over no rows is NULL
UnscoredRow == <<Cell(k_product_id, StrValue(<<"p", "0">>)), Cell(k_avg_score, NoneValue)>>

k_category == <<"c", "a", "t", "e", "g", "o", "r", "y">>

v_toys == <<"t", "o", "y", "s">>

\* a row of an aggregation by category: no identifier column
CategoryRow == <<Cell(k_category, StrValue(v_toys)), Cell(k_avg_score, DecimalValue(2))>>

\* rows a query can return
RowSets ==
    {[i \in 1..n |-> ProductRow(i)] : n \in 0..MaxRows}
      \cup {<<TokenRow>>, <<UnscoredRow>>, <<CategoryRow>>}

DbOutcomes == {Rows(r) : r \in RowSets} \cup DbFailures

\* fetch_schema (54-103): the schema text, or the exception of get_pool / fetch
SchemaOutcomes == {Reply(s_schema)} \cup {Failure(e_db_down)}

\* json.dumps(rows, indent=2) raises TypeError
RowsNotSerializable(rows) ==
    \E i \in 1..Len(rows) : \E j \in 1..Len(rows[i]) :
        rows[i][j].v.t \notin {"str", "int", "float", "None"}

-----------------------------------------------------------------------------
(* chat_query, before the workflow (main.py 44-70) *)

\* no wikipedia_lookup coroutine is running: tool_agent creates the coroutine
\* object at orchestrator.py 584 and never awaits it
NoLookup == [pc |-> "none"]

\* one request is being served: no other task's frame is waiting
NoFrame == [pc |-> "none"]

\* the tasks of the event loop are not followed call by call
NoLoop == [thread |-> "none"]

\* callers of get_pool are not followed one by one
NoPool == [current |-> None]

Init ==
    /\ pc = "start"
    /\ query \in Queries
    /\ mem_manager \in BOOLEAN
    /\ intent = <<>>
    /\ sql_query = None
    /\ results = NoneResults
    /\ visualization_config = JNull
    /\ memory_context = EmptyContext
    /\ db_schema = <<>>
    /\ error = None
    /\ insights = Absent
    /\ message = Absent
    /\ exc = None
    /\ trace = <<>>
    /\ calls = <<>>
    /\ store_task = "none"
    /\ lookup = NoLookup
    /\ suspended = NoFrame
    /\ loop = NoLoop
    /\ pool = NoPool

GetContext ==
    /\ pc = "start"
    /\ \/ /\ mem_manager                       \* get_context returns a dict
          /\ memory_context' \in MemoryContexts
          /\ calls' = Append(calls, Memory("get_context", TRUE))
       \/ /\ mem_manager                       \* it raises: memory_context = {}
          /\ memory_context' = EmptyContext
          /\ calls' = Append(calls, Memory("get_context", FALSE))
       \/ /\ ~mem_manager                      \* no manager: no call
          /\ memory_context' = EmptyContext
          /\ calls' = calls
    /\ pc' = "router"
    /\ UNCHANGED <<query, intent, sql_query, results, visualization_config, db_schema,
                   error, insights, message, mem_manager, exc, trace, store_task>>
    /\ UNCHANGED <<lookup, suspended, loop, pool>>

-----------------------------------------------------------------------------
(* router_agent (orchestrator.py 114-282) and its conditional edge *)

RouterAgent ==
    /\ pc = "router"
    /\ trace' = Append(trace, "router")
    /\ \/ /\ FastPathMatches(query)            \* 136-142: no generative call
          /\ intent' = s_analytical
          /\ pc' = ConditionalEdge(route_after_router(intent'))
          /\ UNCHANGED <<calls, exc>>
       \/ /\ ~FastPathMatches(query)           \* 205: json.dumps raises, outside the try
          /\ Truthy(memory_context) /\ JsonDumpsRaises(memory_context)
          /\ pc' = "raised"
          /\ exc' = e_not_serializable
          /\ UNCHANGED <<intent, calls>>
       \/ /\ ~FastPathMatches(query)           \* 221-280
          /\ ~(Truthy(memory_context) /\ JsonDumpsRaises(memory_context))
          /\ \E reply \in RouterReplies :
                /\ intent' = RouterClassify(query, reply)
                /\ calls' = Append(calls, Gateway("router", query, reply))
          /\ pc' = ConditionalEdge(route_after_router(intent'))
          /\ exc' = exc
    /\ UNCHANGED <<query, sql_query, results, visualization_config, memory_context,
                   db_schema, error, insights, message, mem_manager, store_task>>
    /\ UNCHANGED <<lookup, suspended, loop, pool>>

-----------------------------------------------------------------------------
(* analytical_agent (orchestrator.py 285-442) *)

\* s.rstrip(';')
RStripSemicolons(s) ==
    LET keep == {i \in 1..Len(s) : s[i] # ";"}
    IN  IF keep = {} THEN <<>>
        ELSE SubSeq(s, 1, CHOOSE i \in keep : \A j \in keep : j <= i)

\* 385-397: the candidate query from response.text
CleanSql(text) ==
    LET t0 == Strip(text)
        t1 == IF StartsWith(t0, s_fence_sql) THEN DropFirst(t0, 6)
              ELSE IF StartsWith(t0, s_fence) THEN DropFirst(t0, 3)
              ELSE t0
        t2 == IF EndsWith(t1, s_fence) THEN DropLast(t1, 3) ELSE t1
    IN  Strip(RStripSemicolons(Strip(t2)))

\* a node that records no error message
ClassifyError_None(msg) == None

\* a classification that knows only the generic class of line 434
ClassifyError_Generic(msg) == s_executing_error \o msg

\* a classification that tests "does not exist" / "relation" first
ClassifyError_NotFoundFirst(msg) ==
    LET low == Lower(msg)
    IN  IF Contains(low, s_does_not_exist) \/ Contains(low, s_relation)
        THEN s_not_found_error \o msg
        ELSE IF Contains(low, s_syntax_error) \/ Contains(low, s_invalid)
        THEN s_sql_syntax_error \o msg
        ELSE s_executing_error \o msg

\* 434-438: the error message for str(e) = msg
ClassifyError(msg) ==
    LET low == Lower(msg)
    IN  IF Contains(low, s_syntax_error) \/ Contains(low, s_invalid)
        THEN s_sql_syntax_error \o msg
        ELSE IF Contains(low, s_does_not_exist) \/ Contains(low, s_relation)
        THEN s_not_found_error \o msg
        ELSE s_executing_error \o msg

SqlReplies == {Reply(t) : t \in {r_sql_plain, r_sql_fenced, r_sql_blank}} \cup GatewayFailures

\* 285-406: the node up to its suspension in `await execute_query` at 406;
\* while fetch_schema is awaited at 291 nothing is written yet
AnalyticalAgent ==
    /\ pc = "analytical"
    /\ trace' = Append(trace, "analytical")
    /\ \E schema \in SchemaOutcomes :
       \/ /\ ~schema.ok                        \* 291: fetch_schema raises, outside any try
          /\ pc' = "raised"
          /\ exc' = schema.msg
          /\ calls' = calls \o <<Relational("fetch_schema", <<>>, schema)>>
          /\ UNCHANGED <<db_schema, sql_query, results, error>>
       \/ /\ schema.ok                         \* 298: the enhancer's json.dumps raises
          /\ EnhancerRaises(memory_context)
          /\ pc' = "raised"
          /\ exc' = e_not_serializable
          /\ calls' = calls \o <<Relational("fetch_schema", <<>>, schema)>>
          /\ UNCHANGED <<db_schema, sql_query, results, error>>
       \/ /\ schema.ok
          /\ ~EnhancerRaises(memory_context)
          /\ db_schema' = schema.text
          /\ exc' = exc
          /\ \E enh \in EnhancerReplies, gen \in SqlReplies :
             LET enhanced_query == enhance_query_with_context(query, memory_context, enh)
             IN  /\ calls' = calls \o <<Relational("fetch_schema", <<>>, schema)>>
                              \o EnhancerCalls(query, memory_context, enh)
                              \o <<Gateway("analytical", enhanced_query, gen)>>
                 /\ \/ /\ ~gen.ok              \* 382 raises: except at 422
                       /\ results' = ListOf(<<>>)
                       /\ sql_query' = sql_query
                       /\ error' = ClassifyError(gen.msg)
                       /\ pc' = Edge("analytical")
                    \/ /\ gen.ok               \* 403, then suspended at 406
                       /\ sql_query' = CleanSql(gen.text)
                       /\ pc' = "analytical_execute"
                       /\ UNCHANGED <<results, error>>
    /\ UNCHANGED <<query, intent, visualization_config, memory_context, insights,
                   message, mem_manager, store_task>>
    /\ UNCHANGED <<lookup, suspended, loop, pool>>

\* 406-442: execute_query(sql_query) returns or raises and the node returns
AnalyticalExecute ==
    /\ pc = "analytical_execute"
    /\ pc' = Edge("analytical")
    /\ \E out \in DbOutcomes :
       /\ calls' = calls \o <<Executed(sql_query, out)>>
       /\ \/ /\ ~out.ok                        \* 406 raises: except at 422
             /\ results' = ListOf(<<>>)
             /\ error' = ClassifyError(out.msg)
          \/ /\ out.ok                         \* 416-420
             /\ results' = ListOf(NormalizeRows(out.rows))
             /\ error' = None
    /\ UNCHANGED <<query, intent, sql_query, visualization_config, memory_context,
                   db_schema, insights, message, mem_manager, exc, trace, store_task>>
    /\ UNCHANGED <<lookup, suspended, loop, pool>>

-----------------------------------------------------------------------------
(* vector_store.semantic_search (vector_store.py 36-87) *)

\* what the embedding call and the collection query give: the product ids
\* of the metadatas, or an exception with message msg
Ids(ids) == [ok |-> TRUE, ids |-> ids, msg |-> <<>>]

SearchFailure(msg) == [ok |-> FALSE, ids |-> <<>>, msg |-> msg]

\* 75-87: the message of the exception semantic_search raises instead
WrapSearchError(error_msg) ==
    LET low == Lower(error_msg)
    IN  IF Contains(low, s_quota) \/ Contains(low, s_429) \/ Contains(low, s_rate_limit)
        THEN s_quota_prefix \o error_msg
        ELSE IF Contains(low, s_api_key) \/ Contains(low, s_authentication)
                  \/ Contains(error_msg, s_401)
        THEN s_auth_prefix \o error_msg
        ELSE IF Contains(low, s_empty_word) \/ Contains(low, s_not_found)
        THEN s_empty_prefix \o error_msg
        ELSE s_semantic_error \o error_msg

SearchOutcomes ==
    {Ids([i \in 1..n |-> <<"p">> \o IntToText(i)]) : n \in 0..MaxIds}
      \cup {SearchFailure(m) : m \in {e_gateway, e_auth, e_collection, e_timeout}}

-----------------------------------------------------------------------------
(* semantic_agent (orchestrator.py 445-520) *)

\* 466: ', '.join(f"'{pid}'" for pid in product_ids)
RECURSIVE product_ids_str(_)
product_ids_str(ids) ==
    IF ids = <<>> THEN <<>>
    ELSE IF Len(ids) = 1 THEN <<"'">> \o ids[1] \o <<"'">>
    ELSE <<"'">> \o ids[1] \o <<"'", ",", " ">> \o product_ids_str(Tail(ids))

\* a call of semantic_search, as logged: the ids it returned, joined as at
\* line 466, or the message it raised
Vector(by, arg, outcome) ==
    [svc |-> "vector", by |-> by, arg |-> arg, ok |-> outcome.ok,
     out |-> IF outcome.ok THEN product_ids_str(outcome.ids) ELSE outcome.msg]

\* a semantic node without the early return of lines 461-463
ZeroIdsReturn_Never(ids) == FALSE

\* 461: if not product_ids
ZeroIdsReturn(ids) == ids = <<>>

\* a semantic node that stores the query it builds in sql_query
SemanticAgent_StoresQuery ==
    /\ pc = "semantic"
    /\ trace' = Append(trace, "semantic")
    /\ pc' = Edge("semantic")
    /\ sql_query' = query
    /\ results' = ListOf(<<>>)
    /\ UNCHANGED <<query, intent, visualization_config, memory_context, db_schema, error,
                   insights, message, mem_manager, exc, store_task, calls>>
    /\ UNCHANGED <<lookup, suspended, loop, pool>>

\* 445-499: the node up to its suspension in `await execute_query` at 499
SemanticAgent ==
    /\ pc = "semantic"
    /\ trace' = Append(trace, "semantic")
    /\ \/ /\ EnhancerRaises(memory_context)    \* 455 raises: except at 512
          /\ results' = ListOf(<<>>)
          /\ error' = s_semantic_error \o e_not_serializable
          /\ calls' = calls
          /\ pc' = Edge("semantic")
       \/ /\ ~EnhancerRaises(memory_context)
          /\ \E enh \in EnhancerReplies, found \in SearchOutcomes :
             LET enhanced_query == enhance_query_with_context(query, memory_context, enh)
             IN  /\ calls' = calls \o EnhancerCalls(query, memory_context, enh)
                              \o <<Vector("semantic", enhanced_query, found)>>
                 /\ \/ /\ ~found.ok            \* 458 raises: except at 512
                       /\ results' = ListOf(<<>>)
                       /\ error' = s_semantic_error \o WrapSearchError(found.msg)
                       /\ pc' = Edge("semantic")
                    \/ /\ found.ok             \* 461-463
                       /\ ZeroIdsReturn(found.ids)
                       /\ results' = ListOf(<<>>)
                       /\ error' = error
                       /\ pc' = Edge("semantic")
                    \/ /\ found.ok             \* 466-497, then suspended at 499
                       /\ ~ZeroIdsReturn(found.ids)
                       /\ pc' = "semantic_execute"
                       /\ UNCHANGED <<results, error>>
    /\ UNCHANGED <<query, intent, sql_query, visualization_config, memory_context,
                   db_schema, insights, message, mem_manager, exc, store_task>>
    /\ UNCHANGED <<lookup, suspended, loop, pool>>

\* 499-520: execute_query returns or raises and the node returns; the local
\* product_ids_str is the text the search logged last
SemanticExecute ==
    /\ pc = "semantic_execute"
    /\ pc' = Edge("semantic")
    /\ \E out \in DbOutcomes :
       /\ calls' = calls \o <<Executed(calls[Len(calls)].out, out)>>
       /\ \/ /\ ~out.ok                        \* 499 raises: except at 512
             /\ results' = ListOf(<<>>)
             /\ error' = s_semantic_error \o out.msg
          \/ /\ out.ok                         \* 506-510
             /\ results' = ListOf(NormalizeRows(out.rows))
             /\ error' = None
    /\ UNCHANGED <<query, intent, sql_query, visualization_config, memory_context,
                   db_schema, insights, message, mem_manager, exc, trace, store_task>>
    /\ UNCHANGED <<lookup, suspended, loop, pool>>

-----------------------------------------------------------------------------
(* tools.get_definition (tools.py 106-132); GEMINI_API_KEY is set, or the
   import of orchestrator.py (15-17) would have raised *)

\* a get_definition that lets the gateway's failure through
get_definition_Raises(reply) ==
    IF reply.ok THEN Strip(reply.text) ELSE None

get_definition(reply) ==
    IF reply.ok THEN Strip(reply.text) ELSE s_definition_error \o reply.msg

DefinitionReplies == {Reply(r_definition)} \cup GatewayFailures

-----------------------------------------------------------------------------
(* tool_agent (orchestrator.py 523-607) *)

\* str(e) of the AttributeError that .get raises on a value that is no dict
AttributeErrorText(v) ==
    CASE v.t = "array" -> e_list_get
      [] v.t = "string" -> e_str_get
      [] v.t = "null" -> e_none_get

\* f"{v}" for a JSON string or null
FormatValue(v) == IF v.t = "string" THEN v.s ELSE None_text

ToolReplies ==
    {Reply(t) : t \in {r_tool_wiki, r_tool_definition, r_tool_unknown,
                       r_tool_bad_parameters, r_tool_no_parameters, r_empty_object,
                       r_array, r_prose}}
      \cup GatewayFailures

\* whether the run reaches `await get_definition(term)` (585-587)
CallsGetDefinition(reply) ==
    /\ reply.ok
    /\ LET parsed_response == JsonLoads(StripJsonFences(reply.text))
       IN  /\ parsed_response.t = "object"
           /\ DictGet(parsed_response, "tool", JString(<<>>)) = JString(s_get_definition)
           /\ DictGet(parsed_response, "parameters", JObject(<<>>)).t = "object"

\* the value stored under 'text' (556-605); defn is get_definition's reply
ToolResultText(reply, defn) ==
    IF ~reply.ok
    THEN StrValue(s_error_colon \o reply.msg)                        \* except Exception
    ELSE LET parsed_response == JsonLoads(StripJsonFences(reply.text))
         IN  IF parsed_response = JSONDecodeError
             THEN StrValue(s_could_not_parse)                        \* except JSONDecodeError
             ELSE IF parsed_response.t # "object"
             THEN StrValue(s_error_colon \o AttributeErrorText(parsed_response))
             ELSE LET tool_name == DictGet(parsed_response, "tool", JString(<<>>))
                      parameters == DictGet(parsed_response, "parameters", JObject(<<>>))
                  IN  IF tool_name = JString(s_wikipedia_lookup)
                      THEN IF parameters.t # "object"
                           THEN StrValue(s_error_colon \o AttributeErrorText(parameters))
                           ELSE CoroutineValue       \* 584: wikipedia_lookup(topic), not awaited
                      ELSE IF tool_name = JString(s_get_definition)
                      THEN IF parameters.t # "object"
                           THEN StrValue(s_error_colon \o AttributeErrorText(parameters))
                           ELSE StrValue(get_definition(defn))
                      ELSE StrValue(s_unknown_tool \o FormatValue(tool_name))

\* the term passed to get_definition (586)
DefinitionTerm(reply) ==
    LET parsed_response == JsonLoads(StripJsonFences(reply.text))
        parameters == DictGet(parsed_response, "parameters", JObject(<<>>))
    IN  PyText(DictGet(parameters, "term", JString(<<>>)))

text_display == JObject(<<Member("type", JString(s_text))>>)

ToolAgent ==
    /\ pc = "tool"
    /\ trace' = Append(trace, "tool")
    /\ pc' = Edge("tool")
    /\ \E reply \in ToolReplies, defn \in DefinitionReplies :
          /\ results' = ListOf(<< <<Cell(k_text, ToolResultText(reply, defn))>> >>)
          /\ calls' = calls \o <<Gateway("tool", query, reply)>>
                \o (IF CallsGetDefinition(reply)
                    THEN <<Gateway("get_definition", DefinitionTerm(reply), defn)>>
                    ELSE <<>>)
    /\ visualization_config' = text_display
    /\ UNCHANGED <<query, intent, sql_query, memory_context, db_schema, error, insights,
                   message, mem_manager, exc, store_task>>
    /\ UNCHANGED <<lookup, suspended, loop, pool>>

-----------------------------------------------------------------------------
(* tools.wikipedia_lookup (tools.py 13-103), run by a caller that awaits it *)

\* 24
max_retries == 3

\* 25: seconds
retry_delay == 2

\* 61: characters kept of a summary
SummaryLimit == 500

\* 2 ** n
RECURSIVE Pow2(_)
Pow2(n) == IF n = 0 THEN 1 ELSE 2 * Pow2(n - 1)

\* a wait that does not grow
wait_time_Constant(attempt) == retry_delay

\* 73, 84: retry_delay * (2 ** attempt)
wait_time(attempt) == retry_delay * Pow2(attempt)

\* 61-62: summary[:500] + "..."
Truncate(summary) ==
    IF Len(summary) > SummaryLimit
    THEN SubSeq(summary, 1, SummaryLimit) \o s_ellipsis
    ELSE summary

\* 80-82: the errors that are retried
IsConnectionError(msg) ==
    LET error_msg == Lower(msg)
    IN  \/ Contains(error_msg, s_timeout)
        \/ Contains(error_msg, s_connection)
        \/ Contains(error_msg, s_max_retries)

\* what one attempt meets: asyncio.TimeoutError of a wait_for (47-50, 54-57),
\* another exception with message msg, a page that does not exist (52, 67),
\* a page that exists (52), or the page's summary (54-57)
TimedOut == [kind |-> "timeout", text |-> <<>>]

Raised(msg) == [kind |-> "error", text |-> msg]

PageMissing == [kind |-> "missing", text |-> <<>>]

PageExists == [kind |-> "exists", text |-> <<>>]

Summary(text) == [kind |-> "summary", text |-> text]

\* a summary of n characters
SummaryOf(n) == [i \in 1..n |-> "x"]

SummaryLengths == {0, 3, SummaryLimit, SummaryLimit + 1}

LookupFailures ==
    {TimedOut} \cup {Raised(m) : m \in {e_read_timeout, e_gateway_timeout, e_bad_json}}

\* 47-52: what the awaited page fetch gives
PageOutcomes == LookupFailures \cup {PageMissing, PageExists}

\* 54-57: what the awaited summary fetch gives
SummaryOutcomes == LookupFailures \cup {Summary(SummaryOf(n)) : n \in SummaryLengths}

\* 59-63: the attempt returns a summary
ReturnsSummary(outcome) == outcome.kind = "summary" /\ outcome.text # <<>>

\* a loop that goes round once more than max_retries allows
Retries_OneMore(outcome, attempt) ==
    /\ \/ outcome.kind = "timeout"
       \/ outcome.kind = "error" /\ IsConnectionError(outcome.text)
    /\ attempt < max_retries

\* 71-93: the loop sleeps and goes round again after this outcome
Retries(outcome, attempt) ==
    /\ \/ outcome.kind = "timeout"
       \/ outcome.kind = "error" /\ IsConnectionError(outcome.text)
    /\ attempt < max_retries - 1

\* a fetch of the page (by = "wiki_wiki.page", 47-50) or of its summary
\* (by = "page.summary", 54-57), as logged
Encyclopedia(by, topic, outcome) ==
    [svc |-> "encyclopedia", by |-> by, arg |-> topic,
     ok |-> outcome.kind \in {"summary", "missing", "exists"}, out |-> outcome.text]

\* 103: the text returned when the fallback is disabled
NotFoundText(topic) == s_wiki_not_found_prefix \o topic \o s_wiki_not_found_suffix

Topics == {s_boleto, s_frete}

\* the frame of wikipedia_lookup(topic, fallback_to_gemini) at line 27
NewLookup(topic, fallback_to_gemini) ==
    [pc |-> "attempt", topic |-> topic, fallback_to_gemini |-> fallback_to_gemini,
     attempt |-> 0, waits |-> <<>>, outcomes |-> <<>>, returned |-> None]

\* a caller awaits wikipedia_lookup; the request fields are those of a state
\* inside the tool node
LookupInit ==
    /\ pc = "lookup"
    /\ query = q_boleto
    /\ mem_manager = FALSE
    /\ intent = s_tool
    /\ sql_query = None
    /\ results = NoneResults
    /\ visualization_config = JNull
    /\ memory_context = EmptyContext
    /\ db_schema = <<>>
    /\ error = None
    /\ insights = Absent
    /\ message = Absent
    /\ exc = None
    /\ trace = <<>>
    /\ calls = <<>>
    /\ store_task = "none"
    /\ \E topic \in Topics, fallback_to_gemini \in BOOLEAN :
          lookup = NewLookup(topic, fallback_to_gemini)
    /\ suspended = NoFrame
    /\ loop = NoLoop
    /\ pool = NoPool

request_vars == <<pc, query, intent, sql_query, results, visualization_config,
                  memory_context, db_schema, error, insights, message, mem_manager,
                  exc, trace, store_task>>

\* 27-52, 65-93: one iteration of the for loop up to the return of the
\* awaited page fetch: the page exists and the summary is awaited next, or the
\* iteration ends in a break or a sleep
LookupAttempt ==
    /\ lookup.pc = "attempt"
    /\ \E outcome \in PageOutcomes :
          /\ calls' = Append(calls, Encyclopedia("wiki_wiki.page", lookup.topic, outcome))
          /\ lookup' = IF outcome = PageExists
                       THEN [lookup EXCEPT !.pc = "summary"]
                       ELSE [lookup EXCEPT
                               !.outcomes = Append(@, outcome),
                               !.pc = IF Retries(outcome, lookup.attempt) THEN "sleep"
                                      ELSE "fallback"]
    /\ UNCHANGED <<request_vars, suspended, loop, pool>>

\* 54-93: the rest of the iteration, from the return of the awaited summary
\* fetch to the return, break or sleep
LookupSummary ==
    /\ lookup.pc = "summary"
    /\ \E outcome \in SummaryOutcomes :
          /\ calls' = Append(calls, Encyclopedia("page.summary", lookup.topic, outcome))
          /\ lookup' = [lookup EXCEPT
                !.outcomes = Append(@, outcome),
                !.returned = IF ReturnsSummary(outcome) THEN Truncate(outcome.text) ELSE @,
                !.pc = IF ReturnsSummary(outcome) THEN "returned"
                       ELSE IF Retries(outcome, lookup.attempt) THEN "sleep"
                       ELSE "fallback"]
    /\ UNCHANGED <<request_vars, suspended, loop, pool>>

\* 75, 86: await asyncio.sleep(wait_time), then the next iteration
LookupSleep ==
    /\ lookup.pc = "sleep"
    /\ lookup' = [lookup EXCEPT
          !.waits = Append(@, wait_time(lookup.attempt)),
          !.attempt = @ + 1,
          !.pc = "attempt"]
    /\ UNCHANGED <<request_vars, calls, suspended, loop, pool>>

\* a fallback that asks for the definition of nothing
FallbackTerm_Empty(topic) == <<>>

\* 99: get_definition(topic)
FallbackTerm(topic) == topic

\* tools.py 121: 'Error: GEMINI_API_KEY must be set in .env file'
s_api_key_error ==
    <<"E","r","r","o","r",":"," ","G","E","M","I","N","I","_","A","P","I","_","K","E","Y",
      " ","m","u","s","t"," ","b","e"," ","s","e","t"," ","i","n"," ",".","e","n","v"," ",
      "f","i","l","e">>

\* tools.py 119-121: os.getenv('GEMINI_API_KEY') gives nothing, as logged
MissingKey(term) ==
    [svc |-> "environment", by |-> "get_definition", arg |-> term, ok |-> FALSE,
     out |-> s_api_key_error]

\* 95-103: after the loop; get_definition (tools.py 106-132) is called outside
\* the orchestrator here, with GEMINI_API_KEY set or not
LookupFallback ==
    /\ lookup.pc = "fallback"
    /\ \/ /\ lookup.fallback_to_gemini
          /\ \E defn \in DefinitionReplies :
                /\ calls' = Append(calls, Gateway("get_definition", FallbackTerm(lookup.topic), defn))
                /\ lookup' = [lookup EXCEPT !.returned = get_definition(defn),
                                            !.pc = "returned"]
       \/ /\ lookup.fallback_to_gemini
          /\ calls' = Append(calls, MissingKey(FallbackTerm(lookup.topic)))
          /\ lookup' = [lookup EXCEPT !.returned = s_api_key_error,
                                      !.pc = "returned"]
       \/ /\ ~lookup.fallback_to_gemini
          /\ calls' = calls
          /\ lookup' = [lookup EXCEPT !.returned = NotFoundText(lookup.topic),
                                      !.pc = "returned"]
    /\ UNCHANGED <<request_vars, suspended, loop, pool>>

-----------------------------------------------------------------------------
(* viz_generator (orchestrator.py 610-751) *)

Keys(row) == [j \in 1..Len(row) |-> row[j].k]

IsNumeric(cell) == cell.v.t \in {"int", "float"}                     \* 641

IsLongText(cell) == cell.v.t = "str" /\ Len(cell.v.s) > LongTextLength   \* 643

IsIdKey(k) == EndsWith(k, s_id_suffix) \/ k = k_product_id           \* 645

\* 638-646: the columns of the first row, by the first test each passes
numeric_columns(row) == Keys(SelectSeq(row, IsNumeric))

IdCell(cell) == ~IsNumeric(cell) /\ ~IsLongText(cell) /\ IsIdKey(cell.k)

id_columns(row) == Keys(SelectSeq(row, IdCell))

InSeq(x, s) == \E i \in 1..Len(s) : s[i] = x

\* 650
mentions_ratings(q) == \E word \in rating_words : Contains(Lower(q), word)

\* a selector without the override
RatingOverrideApplies_Never(q, rows) == FALSE

\* 655, 713, 731, 742
RatingOverrideApplies(q, rows) ==
    mentions_ratings(q) /\ InSeq(k_avg_score, numeric_columns(rows[1]))

\* 716-722, 732-736, 743-747: the forced bar chart
RatingBarChart(rows) ==
    LET first_row_keys == Keys(rows[1])
        x_axis_col == IF InSeq(k_product_id, first_row_keys) THEN k_product_id
                      ELSE IF id_columns(rows[1]) # <<>> THEN id_columns(rows[1])[1]
                      ELSE first_row_keys[1]
    IN  JObject(<<Member("type", JString(s_bar)),
                  Member("x_axis", JString(x_axis_col)),
                  Member("y_axis", JString(k_avg_score))>>)

plain_table == JObject(<<Member("type", JString(s_table))>>)

\* a default configuration without the axes
empty_table_NoAxes == plain_table

\* 627
empty_table ==
    JObject(<<Member("type", JString(s_table)), Member("x_axis", JNull),
              Member("y_axis", JNull)>>)

\* except branches that always give the plain table
VizFallback_PlainTable(q, rows) == plain_table

\* 728-749: both except branches
VizFallback(q, rows) ==
    IF RatingOverrideApplies(q, rows) /\ Len(rows) > 0
    THEN RatingBarChart(rows)
    ELSE plain_table

\* 689-749: state['visualization_config'] once the gateway was called
VizConfig(q, rows, reply) ==
    IF ~reply.ok
    THEN VizFallback(q, rows)                          \* except Exception
    ELSE LET config == JsonLoads(StripJsonFences(reply.text))
         IN  IF config = JSONDecodeError
             THEN VizFallback(q, rows)                 \* except json.JSONDecodeError
             ELSE IF RatingOverrideApplies(q, rows)
             THEN IF config.t # "object"
                  THEN VizFallback(q, rows)            \* AttributeError: no .get
                  ELSE IF DictGet(config, "type", JNull) = JString(s_table)
                  THEN RatingBarChart(rows)
                  ELSE config
             ELSE config

\* 631: results[:5]
sample_results(rows) == SubSeq(rows, 1, IF Len(rows) > VizSampleSize THEN VizSampleSize ELSE Len(rows))

VizReplies ==
    {Reply(t) : t \in {r_viz_bar, r_viz_table, r_viz_pie, r_viz_no_type, r_null,
                       r_array, r_prose}}
      \cup GatewayFailures

VizGenerator ==
    /\ pc = "visualizer"
    /\ trace' = Append(trace, "visualizer")
    /\ \/ /\ TruthyText(error)                 \* 619-621
          /\ visualization_config' = JNull
          /\ pc' = Edge("visualizer")
          /\ UNCHANGED <<calls, exc>>
       \/ /\ ~TruthyText(error)                \* 625-628
          /\ Len(results.rows) = 0
          /\ visualization_config' = empty_table
          /\ pc' = Edge("visualizer")
          /\ UNCHANGED <<calls, exc>>
       \/ /\ ~TruthyText(error)                \* 661: json.dumps raises, outside the try
          /\ Len(results.rows) > 0
          /\ RowsNotSerializable(sample_results(results.rows))
          /\ pc' = "raised"
          /\ exc' = e_uuid_not_serializable
          /\ UNCHANGED <<visualization_config, calls>>
       \/ /\ ~TruthyText(error)                \* 689-749
          /\ Len(results.rows) > 0
          /\ ~RowsNotSerializable(sample_results(results.rows))
          /\ \E reply \in VizReplies :
                /\ visualization_config' = VizConfig(query, results.rows, reply)
                /\ calls' = calls \o <<Gateway("visualizer", query, reply)>>
          /\ pc' = Edge("visualizer")
          /\ exc' = exc
    /\ UNCHANGED <<query, intent, sql_query, results, memory_context, db_schema, error,
                   insights, message, mem_manager, store_task>>
    /\ UNCHANGED <<lookup, suspended, loop, pool>>

-----------------------------------------------------------------------------
(* insights_agent (orchestrator.py 754-880) *)

\* text.split('\n')
RECURSIVE SplitLines(_)
SplitLines(t) ==
    IF FirstNewline(t) = 0 THEN <<t>>
    ELSE <<SubSeq(t, 1, FirstNewline(t) - 1)>> \o SplitLines(DropFirst(t, FirstNewline(t)))

\* '\n'.join(lines)
RECURSIVE JoinLines(_)
JoinLines(lines) ==
    IF lines = <<>> THEN <<>>
    ELSE IF Len(lines) = 1 THEN lines[1]
    ELSE lines[1] \o <<"\n">> \o JoinLines(Tail(lines))

\* the code's bullet marker, the three characters U+00E2 U+20AC U+00A2
A_CIRC == "U+00E2"

EURO == "U+20AC"

CENT == "U+00A2"

bullet == <<A_CIRC, EURO, CENT>>

\* 858
bullet_markers ==
    {bullet, <<"-">>, <<"*">>, <<"1", ".">>, <<"2", ".">>, <<"3", ".">>, <<"4", ".">>,
     <<"5", ".">>}

IsDigitChar(c) == c \in {"0", "1", "2", "3", "4", "5", "6", "7", "8", "9"}

\* 853-864: one line of the loop, given the lines kept so far
RECURSIVE CleanLines(_, _)
CleanLines(lines, cleaned_lines) ==
    IF lines = <<>> THEN cleaned_lines
    ELSE LET line == Strip(lines[1])
             marked == \E m \in bullet_markers : StartsWith(line, m)
             fresh == line[1] \in DOMAIN LowerMap \/ IsDigitChar(line[1])
         IN  IF line = <<>> THEN CleanLines(Tail(lines), cleaned_lines)
             ELSE IF ~marked /\ fresh /\ cleaned_lines # <<>>
             THEN CleanLines(Tail(lines), Append(cleaned_lines, bullet \o <<" ">> \o line))
             ELSE CleanLines(Tail(lines), Append(cleaned_lines, line))

\* 833: the characters of the class of the first substitution
emoji_class ==
    {"U+00A1", "U+00A8", "U+00AD", "U+00AF", "U+00BC", "U+00E2", "U+00F0", "U+0152",
     "U+0153", "U+0160", "U+0161", "U+0178", "U+017D", "U+02C6", "U+2019", "U+201C",
     "U+201D", "U+2020", "U+20AC"}

\* 835-842: characters of the ranges of emoji_pattern: U+2728 (in 2702-27B0)
\* and U+1F4C8 (in 1F300-1F5FF)
SPARKLES == "U+2728"

CHART == "U+1F4C8"

emoji_pattern == {SPARKLES, CHART}

NotEmoji(c) == c \notin emoji_class \cup emoji_pattern

\* 833, 843: both substitutions delete the characters they match
RemoveEmoji(text) == SelectSeq(text, NotEmoji)

\* the gateway used the marker of the prompt (805-809):
\* '[bullet] **Top Seller:** p1 leads.\n[bullet] **Low:** p2 trails.'
r_ins_marked ==
    bullet \o <<" ","*","*","T","o","p"," ","S","e","l","l","e","r",":","*","*"," ","p","1",
                " ","l","e","a","d","s",".","\n">>
           \o bullet \o <<" ","*","*","L","o","w",":","*","*"," ","p","2"," ","t","r","a","i",
                          "l","s",".">>

\* 'x\n[bullet] y\nZ'
r_ins_mixed == <<"x", "\n">> \o bullet \o <<" ", "y", "\n", "Z">>

\* '[U+1F4C8] Sales up.\n[U+2728]\nDone.'
r_ins_emoji ==
    <<CHART," ","S","a","l","e","s"," ","u","p",".","\n",SPARKLES,"\n","D","o","n","e",".">>

\* 819-866: the text stored from response.text. The whitespace patterns
\* (846-848) remove only whitespace that the per-line strip and the skip of
\* empty lines remove as well.
CleanInsights(text) ==
    JoinLines(CleanLines(SplitLines(Strip(RemoveEmoji(StripFenceLines(Strip(text))))), <<>>))

InsightsReplies ==
    {Reply(t) : t \in {r_ins_bullets, r_ins_plain, r_ins_fenced, r_ins_marked,
                       r_ins_mixed, r_ins_emoji}}
      \cup GatewayFailures

\* a synthesizer that never skips
InsightsSkips_Never(err, res, int) == FALSE

\* 764, 769: the two skips
InsightsSkips(err, res, int) ==
    TruthyText(err) \/ Len(res.rows) = 0 \/ int = s_tool

\* 782: visualization_config.get raises AttributeError (inside the try)
InsightsPromptRaises(viz, res) ==
    viz.t # "object" \/ RowsNotSerializable(SubSeq(res.rows, 1,
        IF Len(res.rows) > InsightsSampleSize THEN InsightsSampleSize ELSE Len(res.rows)))

\* a synthesizer whose failure is recorded in error
InsightsAgent_SetsError ==
    /\ pc = "insights_generator"
    /\ trace' = Append(trace, "insights_generator")
    /\ pc' = Edge("insights_generator")
    /\ \E reply \in InsightsReplies :
          /\ insights' = IF reply.ok THEN CleanInsights(reply.text) ELSE None
          /\ error' = IF reply.ok THEN error ELSE reply.msg
          /\ calls' = calls \o <<Gateway("insights_generator", query, reply)>>
    /\ UNCHANGED <<query, intent, sql_query, results, visualization_config, memory_context,
                   db_schema, message, mem_manager, exc, store_task>>
    /\ UNCHANGED <<lookup, suspended, loop, pool>>

InsightsAgent ==
    /\ pc = "insights_generator"
    /\ trace' = Append(trace, "insights_generator")
    /\ pc' = Edge("insights_generator")
    /\ \/ /\ InsightsSkips(error, results, intent)
          /\ insights' = None
          /\ calls' = calls
       \/ /\ ~InsightsSkips(error, results, intent)      \* except at 873
          /\ InsightsPromptRaises(visualization_config, results)
          /\ insights' = None
          /\ calls' = calls
       \/ /\ ~InsightsSkips(error, results, intent)
          /\ ~InsightsPromptRaises(visualization_config, results)
          /\ \E reply \in InsightsReplies :
                /\ insights' = IF reply.ok THEN CleanInsights(reply.text) ELSE None
                /\ calls' = calls \o <<Gateway("insights_generator", query, reply)>>
    /\ UNCHANGED <<query, intent, sql_query, results, visualization_config, memory_context,
                   db_schema, error, message, mem_manager, exc, store_task>>
    /\ UNCHANGED <<lookup, suspended, loop, pool>>

-----------------------------------------------------------------------------
(* chat_query, after the workflow (main.py 75-129) *)

\* a chat_query that always answers with the generic text
DeriveMessage_Generic(err, res, int, sql) == s_heres_what

\* 80-93
DeriveMessage(err, res, int, sql) ==
    IF TruthyText(err) THEN s_error_colon \o err
    ELSE IF Len(res.rows) = 0
    THEN IF int = s_conversational THEN s_greeting ELSE s_no_results
    ELSE IF int = s_analytical /\ TruthyText(sql)
    THEN s_found \o IntToText(Len(res.rows)) \o s_results_for
    ELSE IF int = s_semantic
    THEN s_found \o IntToText(Len(res.rows)) \o s_products_matching
    ELSE IF int = s_tool THEN s_heres_info
    ELSE s_heres_what

\* a chat_query without lines 76-77
ResultsOrEmpty_Unchanged(res) == res

\* 76-77: if final_state.get('results') is None: final_state['results'] = []
ResultsOrEmpty(res) == IF res.none THEN ListOf(<<>>) ELSE res

\* 75-110: the workflow returned final_state
Respond ==
    /\ pc = "END"
    /\ results' = ResultsOrEmpty(results)
    /\ message' = DeriveMessage(error, results', intent, sql_query)
    /\ store_task' = IF mem_manager THEN "pending" ELSE "none"
    /\ pc' = "done"
    /\ UNCHANGED <<query, intent, sql_query, visualization_config, memory_context,
                   db_schema, error, insights, mem_manager, exc, trace, calls>>
    /\ UNCHANGED <<lookup, suspended, loop, pool>>

\* an error response that loses the exception's text
error_response_NoError(e) ==
    [intent |-> <<>>, sql_query |-> None, results |-> ListOf(<<>>),
     visualization_config |-> JNull, memory_context |-> EmptyContext,
     db_schema |-> <<>>, error |-> None, message |-> s_error_processing]

\* 116-127: the error response's fields, e being str(e); it has no
\* 'insights' key
error_response(e) ==
    [intent |-> <<>>, sql_query |-> None, results |-> ListOf(<<>>),
     visualization_config |-> JNull, memory_context |-> EmptyContext,
     db_schema |-> <<>>, error |-> e, message |-> s_error_processing \o e]

\* 111-129: except Exception as e
OuterExcept ==
    /\ pc = "raised"
    /\ intent' = error_response(exc).intent
    /\ sql_query' = error_response(exc).sql_query
    /\ results' = error_response(exc).results
    /\ visualization_config' = error_response(exc).visualization_config
    /\ memory_context' = error_response(exc).memory_context
    /\ db_schema' = error_response(exc).db_schema
    /\ error' = error_response(exc).error
    /\ insights' = Absent
    /\ message' = error_response(exc).message
    /\ pc' = "done"
    /\ UNCHANGED <<query, mem_manager, exc, trace, calls, store_task>>
    /\ UNCHANGED <<lookup, suspended, loop, pool>>

\* a store whose failure reaches the response
StoreExchange_Surfaces ==
    /\ store_task = "pending"
    /\ \E ok \in BOOLEAN :
          /\ store_task' = IF ok THEN "stored" ELSE "failed"
          /\ error' = IF ok THEN error ELSE e_gateway
          /\ calls' = Append(calls, Memory("store_exchange", ok))
    /\ UNCHANGED <<pc, query, intent, sql_query, results, visualization_config,
                   memory_context, db_schema, insights, message, mem_manager,
                   exc, trace>>
    /\ UNCHANGED <<lookup, suspended, loop, pool>>

\* memory.py 57-88: the task created at main.py 100 runs; its failure is
\* printed and swallowed
StoreExchange ==
    /\ store_task = "pending"
    /\ \E ok \in BOOLEAN :
          /\ store_task' = IF ok THEN "stored" ELSE "failed"
          /\ calls' = Append(calls, Memory("store_exchange", ok))
    /\ UNCHANGED <<pc, query, intent, sql_query, results, visualization_config,
                   memory_context, db_schema, error, insights, message, mem_manager,
                   exc, trace>>
    /\ UNCHANGED <<lookup, suspended, loop, pool>>

-----------------------------------------------------------------------------

Next ==
    \/ GetContext
    \/ RouterAgent
    \/ AnalyticalAgent
    \/ AnalyticalExecute
    \/ SemanticAgent
    \/ SemanticExecute
    \/ ToolAgent
    \/ VizGenerator
    \/ InsightsAgent
    \/ Respond
    \/ OuterExcept
    \/ StoreExchange

Spec == Init /\ [][Next]_vars

\* the event loop runs every task that can take a step, and every external
\* call returns or fails
FairSpec == Spec /\ WF_vars(Next)


LookupNext ==
    \/ LookupAttempt
    \/ LookupSummary
    \/ LookupSleep
    \/ LookupFallback

\* wikipedia_lookup, awaited, under every sequence of attempt outcomes
LookupSpec == LookupInit /\ [][LookupNext]_vars
-----------------------------------------------------------------------------
(* Two requests served concurrently: each call of chat_query is a task of the
   event loop with its own frame (main.py 43-110) *)

\* the frame of the running task: its Query State (the dict made at 61-70 and
\* handed to the workflow at 73), the locals of chat_query, and the calls the
\* request has made
Frame ==
    [pc |-> pc,
     query |-> query,
     intent |-> intent,
     sql_query |-> sql_query,
     results |-> results,
     visualization_config |-> visualization_config,
     memory_context |-> memory_context,
     db_schema |-> db_schema,
     error |-> error,
     insights |-> insights,
     message |-> message,
     exc |-> exc,
     trace |-> trace,
     calls |-> calls,
     store_task |-> store_task]

\* 61-70: the frame of a request that has not started
initial_state(q) ==
    [pc |-> "start",
     query |-> q,
     intent |-> <<>>,
     sql_query |-> None,
     results |-> NoneResults,
     visualization_config |-> JNull,
     memory_context |-> EmptyContext,
     db_schema |-> <<>>,
     error |-> None,
     insights |-> Absent,
     message |-> Absent,
     exc |-> None,
     trace |-> <<>>,
     calls |-> <<>>,
     store_task |-> "none"]

\* a scheduler under which the error field is one object for both requests
Switch_SharedError ==
    /\ suspended # NoFrame
    /\ pc # "raised"
    /\ pc' = suspended.pc
    /\ query' = suspended.query
    /\ intent' = suspended.intent
    /\ sql_query' = suspended.sql_query
    /\ results' = suspended.results
    /\ visualization_config' = suspended.visualization_config
    /\ memory_context' = suspended.memory_context
    /\ db_schema' = suspended.db_schema
    /\ error' = error
    /\ insights' = suspended.insights
    /\ message' = suspended.message
    /\ exc' = suspended.exc
    /\ trace' = suspended.trace
    /\ calls' = suspended.calls
    /\ store_task' = suspended.store_task
    /\ suspended' = Frame
    /\ UNCHANGED <<mem_manager, lookup, loop, pool>>

\* 52, 73: at an await between two steps the event loop leaves the running
\* task and resumes the other request's task with that task's own frame.
\* The except clause of chat_query (111-129) runs without an await.
Switch ==
    /\ suspended # NoFrame
    /\ pc # "raised"
    /\ pc' = suspended.pc
    /\ query' = suspended.query
    /\ intent' = suspended.intent
    /\ sql_query' = suspended.sql_query
    /\ results' = suspended.results
    /\ visualization_config' = suspended.visualization_config
    /\ memory_context' = suspended.memory_context
    /\ db_schema' = suspended.db_schema
    /\ error' = suspended.error
    /\ insights' = suspended.insights
    /\ message' = suspended.message
    /\ exc' = suspended.exc
    /\ trace' = suspended.trace
    /\ calls' = suspended.calls
    /\ store_task' = suspended.store_task
    /\ suspended' = Frame
    /\ UNCHANGED <<mem_manager, lookup, loop, pool>>

\* the queries of the two requests
ConcQueries == {q_top5, q_hello}

\* what the external services give in the runs of two requests: a reply or a
\* failure of each service
ConcOutputs ==
    {r_semantic, r_conversational, r_tool_fenced, r_tool_definition, r_definition,
     r_sql_plain, r_viz_table, r_ins_plain, e_gateway,
     e_syntax, e_db_down, <<>>, <<"1">>, <<"p", "1">>,
     product_ids_str(<<<<"p", "1">>>>)}

\* the services answer from ConcOutputs, the memory service returns no
\* history, and a query returns product rows (a tool its text row)
ConcEnv ==
    /\ \A i \in 1..Len(calls) : calls[i].out \in ConcOutputs
    /\ memory_context = EmptyContext
    /\ \A i \in 1..Len(results.rows) : Keys(results.rows[i]) \in {Keys(ProductRow(i)), <<k_text>>}

ConcInit ==
    /\ query \in ConcQueries
    /\ pc = "start"
    /\ intent = <<>>
    /\ sql_query = None
    /\ results = NoneResults
    /\ visualization_config = JNull
    /\ memory_context = EmptyContext
    /\ db_schema = <<>>
    /\ error = None
    /\ insights = Absent
    /\ message = Absent
    /\ exc = None
    /\ trace = <<>>
    /\ calls = <<>>
    /\ store_task = "none"
    /\ mem_manager \in BOOLEAN
    /\ lookup = NoLookup
    /\ suspended \in {initial_state(q) : q \in ConcQueries}
    /\ loop = NoLoop
    /\ pool = NoPool

ConcNext ==
    \/ GetContext /\ ConcEnv'
    \/ RouterAgent /\ ConcEnv'
    \/ AnalyticalAgent /\ ConcEnv'
    \/ AnalyticalExecute /\ ConcEnv'
    \/ SemanticAgent /\ ConcEnv'
    \/ SemanticExecute /\ ConcEnv'
    \/ ToolAgent /\ ConcEnv'
    \/ VizGenerator /\ ConcEnv'
    \/ InsightsAgent /\ ConcEnv'
    \/ Respond /\ ConcEnv'
    \/ OuterExcept /\ ConcEnv'
    \/ StoreExchange /\ ConcEnv'
    \/ Switch

\* two requests, their tasks interleaved at the awaits between their steps
ConcSpec == ConcInit /\ [][ConcNext]_vars

-----------------------------------------------------------------------------
(* The event loop: which external calls suspend the calling task *)

\* an external call as the code makes it: awaited (the task is suspended until
\* the response arrives) or made synchronously on the thread of the event loop
Call(node, service, awaited) == [node |-> node, service |-> service, awaited |-> awaited]

\* the external calls of a request, in order, on each path through the graph
\* (empty memory context, no fast path), and those of an awaited
\* wikipedia_lookup whose page exists
CallPath(kind) ==
    CASE kind = "analytical" ->
           <<Call("router", "gateway", FALSE),             \* orchestrator.py 226
             Call("analytical", "relational", TRUE),       \* 291 (database.py 73)
             Call("analytical", "gateway", FALSE),         \* 382
             Call("analytical", "relational", TRUE),       \* 406 (database.py 117)
             Call("visualizer", "gateway", FALSE),         \* 694
             Call("insights_generator", "gateway", FALSE)>>       \* 816
      [] kind = "semantic" ->
           <<Call("router", "gateway", FALSE),             \* 226
             Call("semantic", "vector", FALSE),            \* 458 (vector_store.py 52)
             Call("semantic", "vector", FALSE),            \* 458 (vector_store.py 60)
             Call("semantic", "relational", TRUE),         \* 499 (database.py 117)
             Call("visualizer", "gateway", FALSE),         \* 694
             Call("insights_generator", "gateway", FALSE)>>       \* 816
      [] kind = "tool" ->
           <<Call("router", "gateway", FALSE),             \* 226
             Call("tool", "gateway", FALSE),               \* 561
             Call("tool", "gateway", FALSE)>>              \* 587 (tools.py 128)
      [] kind = "conversational" ->
           <<Call("router", "gateway", FALSE)>>            \* 226
      [] kind = "lookup" ->
           <<Call("wikipedia_lookup", "encyclopedia", TRUE),     \* tools.py 47-50
             Call("wikipedia_lookup", "encyclopedia", TRUE)>>    \* tools.py 54-57

PathKinds == {"analytical", "semantic", "tool", "conversational", "lookup"}

\* the tasks of two concurrent requests
Tasks == {"first", "second"}

NewTask(kind) == [path |-> CallPath(kind), pos |-> 0, status |-> "ready"]

\* the task is inside an external call: suspended at an await, or blocked in
\* a synchronous call
InCall(t) == loop.tasks[t].status \in {"suspended", "blocked"}

LoopInit ==
    /\ pc = "start"
    /\ query = q_hello
    /\ mem_manager = FALSE
    /\ intent = <<>>
    /\ sql_query = None
    /\ results = NoneResults
    /\ visualization_config = JNull
    /\ memory_context = EmptyContext
    /\ db_schema = <<>>
    /\ error = None
    /\ insights = Absent
    /\ message = Absent
    /\ exc = None
    /\ trace = <<>>
    /\ calls = <<>>
    /\ store_task = "none"
    /\ lookup = NoLookup
    /\ suspended = NoFrame
    /\ \E kinds \in [Tasks -> PathKinds] :
          loop = [tasks |-> [t \in Tasks |-> NewTask(kinds[t])], thread |-> "free"]
    /\ pool = NoPool

\* the running task reaches its next external call. An awaited call suspends
\* the task and leaves the thread to the event loop; a synchronous call keeps
\* the thread until it returns.
LoopCall(t) ==
    /\ loop.thread = "free"
    /\ loop.tasks[t].status = "ready"
    /\ loop.tasks[t].pos < Len(loop.tasks[t].path)
    /\ LET call == loop.tasks[t].path[loop.tasks[t].pos + 1]
       IN  loop' = IF call.awaited
                   THEN [loop EXCEPT !.tasks[t].status = "suspended"]
                   ELSE [loop EXCEPT !.tasks[t].status = "blocked", !.thread = t]
    /\ UNCHANGED <<request_vars, calls, lookup, suspended, pool>>

\* the response of the task's call arrives: a synchronous call returns and
\* frees the thread; a suspended task is resumed by the event loop once the
\* thread is free
LoopResponse(t) ==
    /\ InCall(t)
    /\ loop.thread \in {"free", t}
    /\ loop' = [loop EXCEPT !.tasks[t].status = "ready",
                            !.tasks[t].pos = @ + 1,
                            !.thread = "free"]
    /\ UNCHANGED <<request_vars, calls, lookup, suspended, pool>>

\* the task has made its last call and returns
LoopFinish(t) ==
    /\ loop.thread = "free"
    /\ loop.tasks[t].status = "ready"
    /\ loop.tasks[t].pos = Len(loop.tasks[t].path)
    /\ loop' = [loop EXCEPT !.tasks[t].status = "done"]
    /\ UNCHANGED <<request_vars, calls, lookup, suspended, pool>>

\* a step of one task
TaskStep(t) == LoopCall(t) \/ LoopResponse(t) \/ LoopFinish(t)

LoopNext ==
    \/ \E t \in Tasks : LoopCall(t)
    \/ \E t \in Tasks : LoopResponse(t)
    \/ \E t \in Tasks : LoopFinish(t)

\* two tasks on one event loop, call by call
LoopSpec == LoopInit /\ [][LoopNext]_vars

-----------------------------------------------------------------------------
(* database.get_pool (database.py 27-43), called by concurrent requests *)

\* the coroutines that call get_pool on the one event loop
Callers == {"first", "second", "third"}

\* the calls one caller makes (fetch_schema, then execute_query)
MaxPoolCalls == 2

\* the calls of close_pool
MaxCloses == 1

\* 22: 'DB_NAME and DB_PASSWORD must be set in .env file'
e_db_config ==
    <<"D","B","_","N","A","M","E"," ","a","n","d"," ","D","B","_","P","A","S","S","W","O",
      "R","D"," ","m","u","s","t"," ","b","e"," ","s","e","t"," ","i","n"," ",".","e","n",
      "v"," ","f","i","l","e">>

\* the k-th pool asyncpg.create_pool returned
Pool(k) == <<"Pool", k>>

\* a coroutine that is not inside get_pool
IdleCaller == [pc |-> "idle", got |-> None, raised |-> None, calls |-> 0]

\* close_pool is not running
IdleCloser == [pc |-> "idle", target |-> None, calls |-> 0]

\* 10: _pool = None at import, no pool created, nobody calling
PoolInit ==
    /\ pc = "pool"
    /\ query = q_top5
    /\ mem_manager = FALSE
    /\ intent = <<>>
    /\ sql_query = None
    /\ results = NoneResults
    /\ visualization_config = JNull
    /\ memory_context = EmptyContext
    /\ db_schema = <<>>
    /\ error = None
    /\ insights = Absent
    /\ message = Absent
    /\ exc = None
    /\ trace = <<>>
    /\ calls = <<>>
    /\ store_task = "none"
    /\ lookup = NoLookup
    /\ suspended = NoFrame
    /\ loop = NoLoop
    /\ \E config_ok \in BOOLEAN :
          pool = [current |-> None, created |-> 0, config_ok |-> config_ok,
                  callers |-> [c \in Callers |-> IdleCaller],
                  closer |-> IdleCloser, closed |-> {}]

\* 29-32, 43: get_pool() up to its first suspension point or its return: with
\* _pool set it returns it; with _pool None it reads the configuration
\* (ValueError when it is incomplete) and starts asyncpg.create_pool
GetPool(c) ==
    /\ pool.callers[c].pc = "idle"
    /\ pool.callers[c].calls < MaxPoolCalls
    /\ pool' = [pool EXCEPT !.callers[c] =
          IF pool.current # None
          THEN [pc |-> "returned", got |-> pool.current, raised |-> None, calls |-> @.calls + 1]
          ELSE IF ~pool.config_ok
          THEN [pc |-> "raised", got |-> None, raised |-> e_db_config, calls |-> @.calls + 1]
          ELSE [pc |-> "creating", got |-> None, raised |-> None, calls |-> @.calls + 1]]
    /\ UNCHANGED <<request_vars, calls, lookup, suspended, loop>>

\* 34-43: create_pool completes and the caller resumes: _pool is assigned the
\* new pool and returned; a failed connection raises out of get_pool
CreatePool(c) ==
    /\ pool.callers[c].pc = "creating"
    /\ \/ pool' = [pool EXCEPT
              !.created = @ + 1,
              !.current = Pool(pool.created + 1),
              !.callers[c].pc = "returned",
              !.callers[c].got = Pool(pool.created + 1)]
       \/ pool' = [pool EXCEPT
              !.callers[c].pc = "raised",
              !.callers[c].raised = e_db_down]
    /\ UNCHANGED <<request_vars, calls, lookup, suspended, loop>>

\* the caller goes on with the pool (or its exception) and is ready to call
\* get_pool again
PoolUsed(c) ==
    /\ pool.callers[c].pc \in {"returned", "raised"}
    /\ pool.callers[c].calls < MaxPoolCalls
    /\ pool' = [pool EXCEPT !.callers[c].pc = "idle"]
    /\ UNCHANGED <<request_vars, calls, lookup, suspended, loop>>

\* 46-50: close_pool() up to its suspension in `await _pool.close()`; with no
\* pool it returns at once
ClosePool ==
    /\ pool.closer.pc = "idle"
    /\ pool.closer.calls < MaxCloses
    /\ pool' = [pool EXCEPT !.closer =
          IF pool.current # None
          THEN [pc |-> "closing", target |-> pool.current, calls |-> @.calls + 1]
          ELSE [pc |-> "idle", target |-> None, calls |-> @.calls + 1]]
    /\ UNCHANGED <<request_vars, calls, lookup, suspended, loop>>

\* 50-51: the pool is closed and _pool = None, whatever _pool holds by then
PoolClosed ==
    /\ pool.closer.pc = "closing"
    /\ pool' = [pool EXCEPT
          !.closed = @ \cup {pool.closer.target},
          !.current = None,
          !.closer.pc = "idle",
          !.closer.target = None]
    /\ UNCHANGED <<request_vars, calls, lookup, suspended, loop>>

PoolNext ==
    \/ \E c \in Callers :
          \/ GetPool(c)
          \/ CreatePool(c)
          \/ PoolUsed(c)
    \/ ClosePool
    \/ PoolClosed

PoolSpec == PoolInit /\ [][PoolNext]_vars


-----------------------------------------------------------------------------
(* Properties of the request lifecycle *)

\* the response has been built and returned
Responded == pc = "done"

\* the run returned normally from the workflow (no exception reached chat_query)
ReturnedNormally == pc = "done" /\ exc = None

\* the logged calls made by one caller
CallsBy(by) == {i \in 1..Len(calls) : calls[i].by = by}

\* the logged calls made to one service
CallsTo(svc) == {i \in 1..Len(calls) : calls[i].svc = svc}

\* C1: in every response that chat_query returns, results is a list, possibly
\* empty, and never None, on the normal path and on the error path alike.
C1_ResultsNeverNone ==
    Responded => /\ results.none = FALSE
                 /\ Len(results.rows) \in Nat

\* a conversational run: no node wrote results, and the response holds []
C1_Witness ==
    /\ ReturnedNormally
    /\ trace = <<"router">>
    /\ results = ListOf(<<>>)

\* C2: every request run ends: whatever the external calls do and whatever
\* the router wrote to intent, a response is eventually returned.
C2_EveryRunResponds == <>(Responded /\ message # Absent)

\* a run whose router wrote an intent outside the four labels has responded
C2_Witness ==
    /\ ReturnedNormally
    /\ intent \notin valid_intents
    /\ message # Absent

\* C3: when an exception escapes the workflow, the response has results = [],
\* a non-null error holding the exception's text, and a message made from it.
C3_ErrorResponse ==
    (Responded /\ exc # None) =>
        /\ results = ListOf(<<>>)
        /\ error # None
        /\ error = exc
        /\ message = s_error_processing \o exc
        /\ sql_query = None
        /\ visualization_config = JNull

\* fetch_schema raised inside the analytical node and the response was built
C3_Witness ==
    /\ Responded
    /\ exc = e_db_down
    /\ trace = <<"router", "analytical">>
    /\ error = e_db_down

\* the messages with which an external service fails
ExternalFailureTexts ==
    {f.msg : f \in {o \in GatewayFailures \cup DbFailures \cup SchemaOutcomes : ~o.ok}}
       \cup {f.msg : f \in {o \in SearchOutcomes : ~o.ok}}

\* C4 (as claimed): a failure of an external call made by a node is contained
\* by the node, so it never reaches chat_query's except clause.
C4_NodesContainExternalFailures ==
    pc = "raised" => exc \notin ExternalFailureTexts

\* the node sequences the claim allows
ClaimedNodeSequences ==
    {<<"router">>,
     <<"router", "tool">>,
     <<"router", "analytical", "visualizer", "insights_generator">>,
     <<"router", "semantic", "visualizer", "insights_generator">>}

\* C5 (as claimed): the nodes a request ran are exactly one of four sequences.
C5_NodeSequences ==
    Responded => trace \in ClaimedNodeSequences

\* the fast heuristic's test, read from the keyword lists
HasFastKeyword(q) == \E k \in analytical_keywords : Contains(Lower(q), k)

HasToolIndicator(q) == \E k \in tool_indicators : Contains(Lower(q), k)

\* C6: for a query that contains a fast-heuristic keyword and no definition or
\* translation indicator, the router sets intent = analytical and calls nothing.
C6_FastPath ==
    [][(pc = "router" /\ HasFastKeyword(query) /\ ~HasToolIndicator(query))
          => (intent' = s_analytical /\ calls' = calls /\ pc' = "analytical")]_vars

\* an upper-case query took the fast path: the router ran without any call
C6_Witness ==
    /\ trace = <<"router">>
    /\ query = q_total_upper
    /\ intent = s_analytical
    /\ CallsBy("router") = {}
    /\ pc = "analytical"

\* C7 (as claimed): after the router has run, intent is one of the four labels.
C7_IntentIsLabel ==
    (trace # <<>> /\ exc = None) => intent \in valid_intents

\* the router's generative call failed, or its reply is not parseable JSON
RouterCallFailed ==
    \E i \in CallsBy("router") :
        \/ ~calls[i].ok
        \/ JsonLoads(StripJsonFences(calls[i].out)) = JSONDecodeError

\* the router has just run, down its fallback
AfterRouterFallback == trace = <<"router">> /\ exc = None /\ RouterCallFailed

\* C8 (as claimed): on the fallback, intent is analytical exactly when the fast
\* heuristic's test holds (same keywords, same exclusion), else conversational.
C8_FallbackUsesFastTest ==
    AfterRouterFallback =>
        intent = IF HasFastKeyword(query) /\ ~HasToolIndicator(query)
                 THEN s_analytical ELSE s_conversational

\* the fallback's own test: one of its 14 keywords, no exclusion
HasFallbackKeyword(q) == \E k \in fallback_analytical_keywords : Contains(Lower(q), k)

\* C8 (amended): on the fallback, intent is analytical exactly when the
\* lower-cased query contains one of the fallback's 14 keywords, indicators or
\* not, and conversational otherwise; it is never semantic or tool.
C8_FallbackUsesOwnKeywords ==
    AfterRouterFallback =>
        /\ intent = IF HasFallbackKeyword(query) THEN s_analytical ELSE s_conversational
        /\ intent \notin {s_semantic, s_tool}

\* a query with a keyword and an indicator fell back to analytical
C8_Witness ==
    /\ AfterRouterFallback
    /\ query = q_what_is_top
    /\ HasToolIndicator(query)
    /\ intent = s_analytical

\* C9: a request classified conversational calls neither the relational store,
\* the vector service nor the encyclopedia, and its response has results = [],
\* no visualization, no SQL, no error, and the greeting message.
C9_Conversational ==
    (ReturnedNormally /\ intent = s_conversational) =>
        /\ CallsTo("relational") = {}
        /\ CallsTo("vector") = {}
        /\ CallsTo("encyclopedia") = {}
        /\ trace = <<"router">>
        /\ results = ListOf(<<>>)
        /\ visualization_config = JNull
        /\ sql_query = None
        /\ error = None
        /\ message = s_greeting

\* the router's model answered conversational and the greeting was returned
C9_Witness ==
    /\ ReturnedNormally
    /\ intent = s_conversational
    /\ query = q_hello
    /\ \E i \in CallsBy("router") : calls[i].ok
    /\ message = s_greeting

\* the calls a step appended to the log
NewCalls == {i \in 1..Len(calls') : i > Len(calls)}

\* C10: with an empty memory context the enhancer makes no gateway call and
\* returns the query unchanged: the text the node passes on is the query.
C10_EnhancerSkipsOnEmptyContext ==
    [][(pc \in {"analytical", "semantic"} /\ memory_context.keys = {}) =>
          \A i \in NewCalls :
              /\ calls'[i].by # "enhancer"
              /\ (calls'[i].svc = "gateway" /\ calls'[i].by = "analytical")
                    => calls'[i].arg = query
              /\ calls'[i].svc = "vector" => calls'[i].arg = query]_vars

\* a semantic run with an empty context searched for the query itself
C10_Witness ==
    /\ memory_context.keys = {}
    /\ exc = None
    /\ "semantic" \in {trace[i] : i \in 1..Len(trace)}
    /\ CallsBy("enhancer") = {}
    /\ \E i \in CallsTo("vector") : calls[i].arg = query

\* a logged call whose text a node passes on: SQL generation or vector search
PassesQueryOn(c) ==
    \/ c.svc = "gateway" /\ c.by = "analytical"
    \/ c.svc = "vector"

\* the enhancer's gateway call failed, or gave nothing once fences are stripped
EnhancerGaveNothing(c) ==
    /\ c.by = "enhancer"
    /\ \/ ~c.ok
       \/ StripFenceLines(Strip(c.out)) = <<>>

\* C11: with a non-empty memory context, when the enhancer's gateway call
\* fails or yields empty output, the enhancer raises nothing and the calling
\* node goes on with the original query.
C11_EnhancerFallsBack ==
    [][(pc \in {"analytical", "semantic"} /\ memory_context.keys # {}) =>
          \A i \in NewCalls :
              EnhancerGaveNothing(calls'[i]) =>
                  /\ pc' # "raised"
                  /\ \E j \in NewCalls :
                        j > i /\ PassesQueryOn(calls'[j]) /\ calls'[j].arg = query
                  /\ \A j \in NewCalls :
                        PassesQueryOn(calls'[j]) => calls'[j].arg = query]_vars

\* an analytical run whose enhancer reply was only a code fence generated SQL
\* for the original query
C11_Witness ==
    /\ memory_context.keys # {}
    /\ exc = None
    /\ \E i \in CallsBy("enhancer") :
          /\ calls[i].ok
          /\ calls[i].out = r_enh_only_fence
          /\ EnhancerGaveNothing(calls[i])
    /\ \E j \in CallsBy("analytical") : calls[j].arg = query

\* a logged vector search that returned no identifier
ReturnedZeroIds(c) == c.svc = "vector" /\ c.ok /\ c.out = <<>>

\* C12: when the vector search returns zero identifiers, the semantic node
\* sets results = [], leaves error unset and sends no query to the relational
\* store.
C12_ZeroIdsNoQuery ==
    [][pc = "semantic" =>
          \A i \in NewCalls :
              ReturnedZeroIds(calls'[i]) =>
                  /\ results' = ListOf(<<>>)
                  /\ error' = None
                  /\ \A j \in NewCalls : calls'[j].svc # "relational"
                  /\ pc' = "visualizer"]_vars

\* a semantic run whose search found nothing went on to the visualizer
C12_Witness ==
    /\ pc = "visualizer"
    /\ trace = <<"router", "semantic">>
    /\ \E i \in CallsTo("vector") : ReturnedZeroIds(calls[i])
    /\ CallsTo("relational") = {}
    /\ results = ListOf(<<>>)

\* the analytical node has just returned
AfterAnalytical == pc = "visualizer" /\ trace = <<"router", "analytical">>

\* the logged executions of the analytical node's query that failed
FailedExecutions ==
    {i \in CallsTo("relational") : calls[i].by = "execute_query" /\ ~calls[i].ok}

\* C13 (as claimed): every execution failure whose message contains "does not
\* exist" gives an error holding the table-or-column-not-found classification.
C13_DoesNotExistAlwaysNotFound ==
    AfterAnalytical =>
        \A i \in FailedExecutions :
            Contains(calls[i].out, s_does_not_exist) => Contains(error, s_not_found_error)

\* the tests made before the not-found test
SyntaxClassFirst(msg) ==
    Contains(Lower(msg), s_syntax_error) \/ Contains(Lower(msg), s_invalid)

\* C13 (amended): an execution failure whose message contains "does not exist"
\* and neither "syntax error" nor "invalid" gives the table-or-column-not-found
\* error; one that also contains "syntax error" or "invalid" gives the SQL
\* syntax error instead.
C13_DoesNotExistUnlessSyntax ==
    AfterAnalytical =>
        \A i \in FailedExecutions :
            Contains(Lower(calls[i].out), s_does_not_exist) =>
                error = IF SyntaxClassFirst(calls[i].out)
                        THEN s_sql_syntax_error \o calls[i].out
                        ELSE s_not_found_error \o calls[i].out

\* a query on a missing relation was classified as not found
C13_Witness ==
    /\ AfterAnalytical
    /\ \E i \in FailedExecutions : calls[i].out = e_missing_relation
    /\ error = s_not_found_error \o e_missing_relation

\* the nodes that ran
Ran(node) == \E i \in 1..Len(trace) : trace[i] = node

\* the logged SQL generation calls of the analytical node
Generations == {i \in CallsBy("analytical") : calls[i].svc = "gateway"}

\* C14 (as claimed): once the analytical node has a candidate query from the
\* gateway, sql_query holds it in the final state whether execution succeeds
\* or fails; sql_query is null only if the node did not run or generation
\* failed.
C14_SqlQueryKept ==
    Responded =>
        /\ \A i \in Generations : calls[i].ok => sql_query = CleanSql(calls[i].out)
        /\ sql_query = None =>
              \/ ~Ran("analytical")
              \/ \E i \in Generations : ~calls[i].ok

\* the analytical or the semantic node has just returned
AfterRetrieval ==
    /\ pc = "visualizer"
    /\ Len(trace) = 2
    /\ trace[2] \in {"analytical", "semantic"}

\* the logged calls of the retrieval node itself that failed (the enhancer
\* contains its own)
FailedNodeCalls ==
    {i \in 1..Len(calls) :
        /\ ~calls[i].ok
        /\ \/ calls[i].svc \in {"relational", "vector"}
           \/ calls[i].svc = "gateway" /\ calls[i].by = "analytical"}

\* the logged executions that returned rows
Executions ==
    {i \in CallsTo("relational") : calls[i].by = "execute_query" /\ calls[i].ok}

\* C15: after the analytical or the semantic node returns, either error is
\* null and results holds the rows the relational store returned (none when
\* the search found no identifier), or error is non-null and results = [];
\* an error never comes with rows.
C15_ErrorOrRows ==
    AfterRetrieval =>
        /\ \/ /\ error = None
              /\ results.none = FALSE
              /\ FailedNodeCalls = {}
              /\ \A i \in Executions : IntToText(Len(results.rows)) = calls[i].out
              /\ Executions = {} => results.rows = <<>>
           \/ /\ error # None
              /\ results = ListOf(<<>>)
        /\ FailedNodeCalls # {} => error # None
        /\ ~(error # None /\ Len(results.rows) > 0)

\* an analytical run whose execution failed recorded the error and no rows
C15_Witness ==
    /\ AfterRetrieval
    /\ trace[2] = "analytical"
    /\ FailedExecutions # {}
    /\ error # None
    /\ results = ListOf(<<>>)

\* the tool node has just returned
AfterTool == trace = <<"router", "tool">> /\ exc = None

\* the row a tool result is
IsTextRow(row) == Len(row) = 1 /\ row[1].k = k_text /\ row[1].v.t = "str"

\* C16 (as claimed): after the tool node returns, on every path, results is
\* exactly one row with the single field text holding a text string, and
\* visualization_config is {type: text}.
C16_SingleTextRow ==
    AfterTool =>
        /\ results.none = FALSE
        /\ Len(results.rows) = 1
        /\ IsTextRow(results.rows[1])
        /\ visualization_config = text_display

\* the tool node's logged gateway reply selects the encyclopedia lookup
SelectsLookup(c) ==
    /\ c.svc = "gateway" /\ c.by = "tool" /\ c.ok
    /\ LET parsed_response == JsonLoads(StripJsonFences(c.out))
       IN  /\ parsed_response # JSONDecodeError
           /\ parsed_response.t = "object"
           /\ DictGet(parsed_response, "tool", JString(<<>>)) = JString(s_wikipedia_lookup)
           /\ DictGet(parsed_response, "parameters", JObject(<<>>)).t = "object"

\* C17 (as claimed): when the tool node's gateway reply selects the
\* encyclopedia lookup, the lookup is called before the node returns and the
\* text placed in results is a text: the summary or the fallback definition.
C17_LookupIsCalled ==
    AfterTool =>
        \A i \in CallsBy("tool") :
            SelectsLookup(calls[i]) =>
                /\ CallsTo("encyclopedia") # {}
                /\ Len(results.rows) = 1
                /\ IsTextRow(results.rows[1])

-----------------------------------------------------------------------------
(* Properties of wikipedia_lookup *)

\* wikipedia_lookup has left its retry loop
LoopLeft == lookup.pc \in {"fallback", "returned"}

\* every attempt made so far timed out
AllTimedOut ==
    /\ lookup.outcomes # <<>>
    /\ \A i \in 1..Len(lookup.outcomes) : lookup.outcomes[i].kind = "timeout"

\* the logged fetches of the page, one per attempt
PageFetches == {i \in CallsTo("encyclopedia") : calls[i].by = "wiki_wiki.page"}

RECURSIVE SumSeq(_)
SumSeq(s) == IF s = <<>> THEN 0 ELSE Head(s) + SumSeq(Tail(s))

\* C18: when every attempt times out, wikipedia_lookup makes exactly 3
\* attempts, waits 2 and then 4 seconds between them (6 in all), and only then
\* falls back to the glossary definition.
C18_ThreeAttemptsSixSeconds ==
    /\ (AllTimedOut /\ LoopLeft) =>
          /\ Len(lookup.outcomes) = 3
          /\ Cardinality(PageFetches) = 3
          /\ lookup.waits = <<2, 4>>
          /\ SumSeq(lookup.waits) >= 2 + 4
    /\ (AllTimedOut /\ CallsBy("get_definition") # {}) =>
          \A i \in CallsBy("get_definition") :
              /\ Cardinality({j \in PageFetches : j < i}) = 3
              /\ \A j \in CallsTo("encyclopedia") : j < i
              /\ SumSeq(lookup.waits) >= 2 + 4

\* three timeouts, then the definition was returned
C18_Witness ==
    /\ lookup.pc = "returned"
    /\ AllTimedOut
    /\ Len(lookup.outcomes) = 3
    /\ CallsBy("get_definition") # {}

\* the last attempt made
LastOutcome == lookup.outcomes[Len(lookup.outcomes)]

\* the retries are used up: the last allowed attempt met a retried failure
RetriesExhausted ==
    /\ Len(lookup.outcomes) = 3
    /\ \/ LastOutcome.kind = "timeout"
       \/ LastOutcome.kind = "error" /\ IsConnectionError(LastOutcome.text)

\* the text of a logged glossary-definition call
DefinitionText(c) ==
    IF c.svc = "environment" THEN c.out
    ELSE IF c.ok THEN Strip(c.out) ELSE s_definition_error \o c.out

\* C19: when the retries are exhausted or the page does not exist,
\* wikipedia_lookup (fallback enabled, as at its call site) calls
\* get_definition exactly once, with the topic as the term, and returns its
\* text.
C19_FallbackOnce ==
    (/\ lookup.pc = "returned"
     /\ lookup.fallback_to_gemini
     /\ RetriesExhausted \/ LastOutcome.kind = "missing") =>
        /\ Cardinality(CallsBy("get_definition")) = 1
        /\ \A i \in CallsBy("get_definition") :
              /\ calls[i].arg = lookup.topic
              /\ lookup.returned = DefinitionText(calls[i])
              /\ i = Len(calls)

\* a lookup of a missing page returned the definition of the topic
C19_Witness ==
    /\ lookup.pc = "returned"
    /\ lookup.fallback_to_gemini
    /\ LastOutcome.kind = "missing"
    /\ \E i \in CallsBy("get_definition") :
          calls[i].ok /\ calls[i].arg = lookup.topic /\ lookup.returned = s_definition

\* C20 (as claimed): a summary returned by the lookup is at most 500
\* characters long, whatever the length of the fetched summary.
C20_SummaryAtMost500 ==
    (lookup.pc = "returned" /\ ReturnsSummary(LastOutcome)) =>
        Len(lookup.returned) <= 500


\* the text the claim names, one of the words of line 650
s_bad_rating == <<"b", "a", "d", " ", "r", "a", "t", "i", "n", "g">>

\* the value of a column in the first row of the final result set
FirstRowValue(k) ==
    LET row == results.rows[1]
    IN  row[CHOOSE j \in 1..Len(row) : row[j].k = k].v

\* the final state of a run that answered a "bad rating" query with rows that
\* have an avg_score column
BadRatingAnswered ==
    /\ pc = "done"
    /\ ~TruthyText(error)
    /\ Len(results.rows) > 0
    /\ InSeq(k_avg_score, Keys(results.rows[1]))
    /\ Contains(Lower(query), s_bad_rating)

\* visualization_config['type'], JNull where there is none
VizType ==
    IF visualization_config.t = "object"
    THEN DictGet(visualization_config, "type", JNull)
    ELSE JNull

\* the logged gateway calls of the Visualization Selector
VizCalls == CallsBy("visualizer")

\* what the gateway call's reply parses to
ParsedReply(c) ==
    IF c.ok THEN JsonLoads(StripJsonFences(c.out)) ELSE JSONDecodeError

\* the reply is a JSON object that does not choose a table
ChoseOtherThanTable(c) ==
    /\ ParsedReply(c).t = "object"
    /\ DictGet(ParsedReply(c), "type", JNull) # JString(s_table)

\* C21 (as claimed): with error unset, rows that have an avg_score column and
\* a query containing "bad rating", the final visualization type is bar,
\* whatever the gateway returns and whatever the first row's avg_score is.
C21_AlwaysBar == BadRatingAnswered => VizType = JString(s_bar)

\* C21 (amended): when moreover the first row's avg_score is an int or a
\* float, the final visualization type is never table: it is bar when the
\* gateway returns table or bar, fails, or returns no JSON object, and a
\* JSON object that chooses anything else is kept as it is.
C21_BarUnlessOtherChart ==
    (BadRatingAnswered /\ FirstRowValue(k_avg_score).t \in {"int", "float"}) =>
        /\ Cardinality(VizCalls) = 1
        /\ VizType # JString(s_table)
        /\ \A i \in VizCalls :
              IF ChoseOtherThanTable(calls[i])
              THEN visualization_config = ParsedReply(calls[i])
              ELSE VizType = JString(s_bar)

\* a "bad rating" query with numeric scores, the gateway chose a table, and
\* the response holds a bar chart of avg_score
C21_Witness ==
    /\ BadRatingAnswered
    /\ FirstRowValue(k_avg_score).t = "float"
    /\ \E i \in VizCalls : calls[i].ok /\ calls[i].out = r_viz_table
    /\ VizType = JString(s_bar)
    /\ DictGet(visualization_config, "y_axis", JNull) = JString(k_avg_score)

\* the Visualization Selector's gateway calls logged by the step being taken
\* that failed or whose reply is not a JSON document
NewFailedVizCalls ==
    {i \in NewCalls : /\ calls'[i].by = "visualizer"
                      /\ ParsedReply(calls'[i]) = JSONDecodeError}

\* the query mentions ratings and the first row's avg_score is a number
RatingCase ==
    /\ \E word \in rating_words : Contains(Lower(query), word)
    /\ InSeq(k_avg_score, Keys(results.rows[1]))
    /\ FirstRowValue(k_avg_score).t \in {"int", "float"}

\* a bar chart of avg_score over the column x
BarOver(x) ==
    JObject(<<Member("type", JString(s_bar)), Member("x_axis", JString(x)),
              Member("y_axis", JString(k_avg_score))>>)

\* the first-row columns the node counts as identifier columns: named like an
\* identifier and holding neither a number nor a long text
IdentifierColumns ==
    {j \in 1..Len(results.rows[1]) :
        /\ IsIdKey(results.rows[1][j].k)
        /\ results.rows[1][j].v.t \notin {"int", "float"}
        /\ ~(results.rows[1][j].v.t = "str"
             /\ Len(results.rows[1][j].v.s) > LongTextLength)}

\* the x axis of the override: product_id, else the first identifier column,
\* else the first column of the row
OverrideXAxis ==
    IF InSeq(k_product_id, Keys(results.rows[1])) THEN k_product_id
    ELSE IF IdentifierColumns # {}
    THEN results.rows[1][CHOOSE j \in IdentifierColumns :
                            \A l \in IdentifierColumns : j <= l].k
    ELSE results.rows[1][1].k

\* C22 (as claimed): when the Visualization Selector's gateway call fails or
\* its reply cannot be parsed, the node raises nothing and sets the
\* configuration to a bar chart on an identifier column and avg_score if the
\* query mentions ratings and avg_score is numeric, and to a plain table
\* otherwise.
C22_OverrideOnIdentifier ==
    [][NewFailedVizCalls # {} =>
          /\ pc' # "raised"
          /\ IF RatingCase
             THEN \E j \in 1..Len(results.rows[1]) :
                     /\ IsIdKey(results.rows[1][j].k)
                     /\ visualization_config' = BarOver(results.rows[1][j].k)
             ELSE visualization_config' = JObject(<<Member("type", JString(s_table))>>)]_vars

\* C22 (amended): as above, the x axis of the bar chart being product_id if
\* the row has it, else the first identifier column, else (no identifier
\* column) the first column of the row.
C22_FallbackConfig ==
    [][NewFailedVizCalls # {} =>
          /\ pc' # "raised"
          /\ visualization_config' =
                IF RatingCase THEN BarOver(OverrideXAxis)
                ELSE JObject(<<Member("type", JString(s_table))>>)]_vars

\* the gateway call of the Visualization Selector failed on a ratings query
\* over rows without an identifier column, and the node left a bar chart
C22_Witness ==
    /\ pc = "insights_generator"
    /\ \E i \in VizCalls : ~calls[i].ok
    /\ RatingCase
    /\ Keys(results.rows[1])[1] = k_category
    /\ visualization_config = BarOver(k_category)

\* a table configuration whose axes are null
TableWithNullAxes ==
    /\ visualization_config.t = "object"
    /\ VizType = JString(s_table)
    /\ HasKey(visualization_config, "x_axis")
    /\ HasKey(visualization_config, "y_axis")
    /\ DictGet(visualization_config, "x_axis", JArray) = JNull
    /\ DictGet(visualization_config, "y_axis", JArray) = JNull

\* C23: when the Visualization Selector runs with error unset and results
\* empty, it sets the configuration to a table with null x and y axes, makes
\* no call to the gateway and returns.
C23_EmptyResultsTable ==
    [][(pc = "visualizer" /\ ~TruthyText(error) /\ Len(results.rows) = 0) =>
          /\ visualization_config'.t = "object"
          /\ DictGet(visualization_config', "type", JNull) = JString(s_table)
          /\ HasKey(visualization_config', "x_axis")
          /\ HasKey(visualization_config', "y_axis")
          /\ DictGet(visualization_config', "x_axis", JArray) = JNull
          /\ DictGet(visualization_config', "y_axis", JArray) = JNull
          /\ calls' = calls
          /\ pc' = "insights_generator"]_vars

\* the Visualization Selector ran on an empty result set without an error and
\* left the table with null axes, having called nothing
C23_Witness ==
    /\ pc = "insights_generator"
    /\ ~TruthyText(error)
    /\ results.rows = <<>>
    /\ TableWithNullAxes
    /\ VizCalls = {}

\* the logged gateway calls of the Insight Synthesizer
InsightsCalls == CallsBy("insights_generator")

\* C24: in every final state, if error is non-null then visualization_config
\* is null, insights is null or absent, and neither the Visualization
\* Selector nor the Insight Synthesizer has called the gateway in that run.
C24_ErrorSuppresses ==
    (pc = "done" /\ error # None) =>
        /\ visualization_config = JNull
        /\ insights \in {None, Absent}
        /\ VizCalls = {}
        /\ InsightsCalls = {}

\* the analytical or semantic node recorded an error, the Visualization
\* Selector and the Insight Synthesizer both ran and skipped, and the response
\* holds the error with no configuration and no insights
C24_Witness ==
    /\ pc = "done"
    /\ exc = None
    /\ TruthyText(error)
    /\ Ran("visualizer")
    /\ Ran("insights_generator")
    /\ visualization_config = JNull
    /\ insights = None
    /\ VizCalls = {}
    /\ InsightsCalls = {}

\* C25: in every final state, insights is non-null only if
\* intent is analytical or semantic, error is null and results is non-empty;
\* when any of these fails the Insight Synthesizer has made no gateway call.
C25_InsightsOnlyForData ==
    pc = "done" =>
        \/ /\ intent \in {s_analytical, s_semantic}
           /\ error = None
           /\ Len(results.rows) > 0
        \/ /\ insights \in {None, Absent}
           /\ InsightsCalls = {}

\* a semantic run answered with rows, and the response holds the insights the
\* gateway wrote
C25_Witness ==
    /\ pc = "done"
    /\ intent = s_semantic
    /\ error = None
    /\ Len(results.rows) > 0
    /\ insights \notin {None, Absent}
    /\ \E i \in InsightsCalls : calls[i].ok /\ insights = CleanInsights(calls[i].out)

\* the Insight Synthesizer's gateway calls logged by the step being taken
\* that failed
NewFailedInsightsCalls ==
    {i \in NewCalls : calls'[i].by = "insights_generator" /\ ~calls'[i].ok}

\* C26: whether the Insight Synthesizer succeeds, skips or fails, it returns
\* and changes no field of the state other than insights; when its gateway
\* call fails insights is null, and results, error, visualization_config,
\* sql_query and intent are what the Visualization Selector left.
C26_InsightsFrame ==
    [][pc = "insights_generator" =>
          /\ pc' = "END"
          /\ UNCHANGED <<query, intent, sql_query, results, visualization_config,
                         memory_context, db_schema, error>>
          /\ NewFailedInsightsCalls # {} => insights' = None]_vars

\* the Insight Synthesizer's gateway call failed in a run that has rows and a
\* chart: insights is null and the rest of the state is there
C26_Witness ==
    /\ pc = "END"
    /\ Ran("insights_generator")
    /\ \E i \in InsightsCalls : ~calls[i].ok
    /\ insights = None
    /\ error = None
    /\ Len(results.rows) > 0
    /\ VizType = JString(s_bar)
    /\ TruthyText(sql_query)

\* the non-empty texts of the exceptions of a run: the messages the external
\* services fail with, and the exception that left the workflow
RawExceptionTexts == (ExternalFailureTexts \cup {exc}) \ {None, <<>>}

\* the text fields of a response: error, message and the text rows of results
ResponseTexts ==
    {error, message}
      \cup {results.rows[i][1].s : i \in {j \in 1..Len(results.rows) :
                                            IsTextRow(results.rows[j])}}

\* C27 (as claimed): no field of a response (error, message, a results text
\* row) contains the raw text of an exception raised by an external service
\* or by the runtime.
C27_NoRawExceptionText ==
    pc = "done" =>
        \A field \in ResponseTexts : \A raw \in RawExceptionTexts :
            ~Contains(field, raw)

\* the fields of the response chat_query returns
response_vars ==
    <<query, intent, sql_query, results, visualization_config, memory_context,
      db_schema, error, insights, message>>

\* the store_exchange calls logged by the step being taken
NewStoreCalls == {i \in NewCalls : calls'[i].by = "store_exchange"}

\* C28: the memory-store write is dispatched only by the step that computes
\* the final state and its message; that step returns the response with the
\* write still pending (the request path does not wait for it); and the write
\* runs only after the response is returned and, succeeding or failing,
\* changes no field of it. A write that never completes changes nothing
\* either (it takes no step).
C28_StoreAfterResponse ==
    [][/\ (store_task = "none" /\ store_task' # "none") =>
             /\ pc = "END"
             /\ pc' = "done"
             /\ store_task' = "pending"
             /\ message' \notin {None, Absent}
             /\ NewStoreCalls = {}
       /\ (store_task # "none" /\ store_task' # store_task) =>
             /\ store_task = "pending"
             /\ store_task' \in {"stored", "failed"}
             /\ pc = "done" /\ pc' = "done"
             /\ UNCHANGED response_vars
       /\ NewStoreCalls # {} => (pc = "done" /\ store_task = "pending")
       /\ (pc = "done" /\ store_task # "none") => UNCHANGED response_vars]_vars

\* the response was returned and the store failed afterwards
C28_Witness ==
    /\ pc = "done"
    /\ store_task = "failed"
    /\ message \notin {None, Absent}
    /\ error = None
    /\ \E i \in CallsBy("store_exchange") : ~calls[i].ok /\ i = Len(calls)

\* the step belongs to the running request: the other request's frame is not
\* touched
OwnStep == suspended' = suspended

\* the step is a change of task: each frame is carried over whole
SwitchStep == suspended' = Frame /\ Frame' = suspended

\* the two requests have the same input, have received the same external
\* responses and are at the same place
SameInputAndResponses ==
    /\ suspended # NoFrame
    /\ query = suspended.query
    /\ calls = suspended.calls
    /\ trace = suspended.trace
    /\ pc = suspended.pc

\* C29: of two requests running concurrently, interleaved at their suspension
\* points, each has its own Query State: a step of one request neither reads
\* nor writes a field of the other's frame (the frame is the same after the
\* step, and a change of task carries both frames over unchanged), and a
\* request's state is a function of its own input and its own external
\* responses (two requests with the same query and the same responses hold
\* the same state, whatever the other did in between).
C29_RequestsIsolated ==
    [][/\ OwnStep \/ SwitchStep
       /\ SameInputAndResponses' => Frame' = suspended']_vars

\* two different requests were served concurrently and each response holds
\* its own request's answer
C29_Witness ==
    /\ pc = "done"
    /\ suspended # NoFrame
    /\ suspended.pc = "done"
    /\ query = q_top5
    /\ suspended.query = q_hello
    /\ intent = s_analytical
    /\ suspended.intent = s_conversational
    /\ Len(results.rows) = 1
    /\ suspended.results = ListOf(<<>>)
    /\ insights \notin {None, Absent}
    /\ suspended.error = None

\* C30 (as claimed): every external call made by a node is a suspension
\* point: while one request is waiting on such a call, the task of the other
\* request, if it has a step to take, can take it.
C30_EveryCallSuspends ==
    \A t \in Tasks : \A u \in Tasks \ {t} :
        (InCall(t) /\ loop.tasks[u].status # "done") => ENABLED TaskStep(u)

\* C31 (as claimed): on every path, once the request's context is loaded no
\* step changes query or memory_context, so the final state holds the
\* request's message and the context loaded at request start.
C31_QueryAndContextKept ==
    [][pc # "start" => UNCHANGED <<query, memory_context>>]_vars

\* the step being taken is the run of this node
NodeStep(node) ==
    \/ pc = node /\ trace' = Append(trace, node)
    \/ node = "analytical" /\ pc = "analytical_execute"
    \/ node = "semantic" /\ pc = "semantic_execute"

\* C32: each node writes only the fields it owns: the router only intent;
\* the analytical node only db_schema, sql_query, results and error; the
\* semantic node only results and error (never sql_query); the tool node only
\* results and visualization_config; the Visualization Selector only
\* visualization_config; the Insight Synthesizer only insights. Hence a
\* non-null sql_query or a non-empty db_schema in a final state implies
\* intent = analytical.
C32_NodesWriteOwnFields ==
    [][/\ NodeStep("router") =>
             UNCHANGED <<query, sql_query, results, visualization_config,
                         memory_context, db_schema, error, insights>>
       /\ NodeStep("analytical") =>
             UNCHANGED <<query, intent, visualization_config, memory_context, insights>>
       /\ NodeStep("semantic") =>
             UNCHANGED <<query, intent, sql_query, visualization_config,
                         memory_context, db_schema, insights>>
       /\ NodeStep("tool") =>
             UNCHANGED <<query, intent, sql_query, memory_context, db_schema, error,
                         insights>>
       /\ NodeStep("visualizer") =>
             UNCHANGED <<query, intent, sql_query, results, memory_context, db_schema,
                         error, insights>>
       /\ NodeStep("insights_generator") =>
             UNCHANGED <<query, intent, sql_query, results, visualization_config,
                         memory_context, db_schema, error>>
       /\ (pc' = "done" /\ (sql_query' # None \/ db_schema' # <<>>)) =>
             intent' = s_analytical]_vars

\* a semantic run built and executed a query, and the response holds its rows
\* with sql_query null and db_schema empty
C32_Witness ==
    /\ pc = "done"
    /\ intent = s_semantic
    /\ trace = <<"router", "semantic", "visualizer", "insights_generator">>
    /\ \E i \in CallsTo("relational") : calls[i].by = "execute_query" /\ calls[i].ok
    /\ Len(results.rows) > 0
    /\ sql_query = None
    /\ db_schema = <<>>

\* the count texts of a response with n rows
CountText(n, tail) == s_found \o IntToText(n) \o tail

\* C33: every response carries a non-empty message chosen by a fixed priority
\* over the final state: an error message if error is set; otherwise, if
\* results is empty, the greeting for intent conversational and the
\* no-results text for any other intent; otherwise the result count for
\* analytical (with sql_query set) or semantic, the information text for
\* tool, and the generic text in every remaining case.
C33_MessagePriority ==
    pc = "done" =>
        /\ message \notin {None, Absent, <<>>}
        /\ IF error \notin {None, <<>>}
           THEN message \in {s_error_colon \o error, s_error_processing \o error}
           ELSE IF Len(results.rows) = 0
           THEN message = IF intent = s_conversational THEN s_greeting ELSE s_no_results
           ELSE IF intent = s_analytical /\ sql_query \notin {None, <<>>}
           THEN message = CountText(Len(results.rows), s_results_for)
           ELSE IF intent = s_semantic
           THEN message = CountText(Len(results.rows), s_products_matching)
           ELSE IF intent = s_tool
           THEN message = s_heres_info
           ELSE message = s_heres_what

\* an analytical run returned two rows and the message gives their count
C33_Witness ==
    /\ pc = "done"
    /\ error = None
    /\ intent = s_analytical
    /\ Len(results.rows) = 2
    /\ message = s_found \o <<"2">> \o s_results_for

\* the class the claim gives a failure message
ClaimedClass(msg) ==
    IF Contains(Lower(msg), s_syntax_error) \/ Contains(Lower(msg), s_invalid)
    THEN "syntax"
    ELSE IF Contains(Lower(msg), s_does_not_exist) \/ Contains(Lower(msg), s_relation)
    THEN "not_found"
    ELSE "generic"

\* the text with which the error of a class begins
ClassPrefix(class) ==
    CASE class = "syntax" -> s_sql_syntax_error
      [] class = "not_found" -> s_not_found_error
      [] class = "generic" -> s_executing_error

\* C34: every failure the analytical node classifies gets exactly one class,
\* with fixed precedence: "syntax error" or "invalid" in the message gives the
\* syntax class even if "does not exist" or "relation" is there too;
\* otherwise "does not exist" or "relation" gives table-or-column-not-found;
\* every other failure, a failed generation call included, gives the generic
\* execution error.
C34_ClassificationPrecedence ==
    AfterAnalytical =>
        \A i \in FailedNodeCalls :
            /\ error = ClassPrefix(ClaimedClass(calls[i].out)) \o calls[i].out
            /\ \A class \in {"syntax", "not_found", "generic"} \ {ClaimedClass(calls[i].out)} :
                  ~StartsWith(error, ClassPrefix(class))

\* a failure whose message holds both "invalid" and "does not exist" was
\* classified as a syntax error, and a failed generation call as generic
C34_Witness ==
    /\ AfterAnalytical
    /\ \/ /\ \E i \in FailedExecutions : calls[i].out = e_invalid_missing
          /\ error = s_sql_syntax_error \o e_invalid_missing
       \/ /\ \E i \in Generations : ~calls[i].ok
          /\ error = s_executing_error \o e_gateway

\* an attempt outcome after which the claim lets the lookup try again: a
\* timeout or a connection error
RetriedOutcome(outcome) ==
    \/ outcome.kind = "timeout"
    \/ /\ outcome.kind = "error"
       /\ \/ Contains(Lower(outcome.text), s_timeout)
          \/ Contains(Lower(outcome.text), s_connection)
          \/ Contains(Lower(outcome.text), s_max_retries)

\* C35: for every sequence of attempt outcomes wikipedia_lookup makes at most
\* 3 attempts, waits only between two consecutive attempts (2 seconds after
\* the first, 4 seconds after the second, none after the last), and stops at
\* once, without a wait, on a summary, a missing page, an empty summary or a
\* failure that is neither a timeout nor a connection error.
C35_AttemptsAndWaits ==
    /\ Len(lookup.outcomes) <= 3
    /\ Len(lookup.waits) <= 2
    /\ \A i \in 1..Len(lookup.waits) : lookup.waits[i] = <<2, 4>>[i]
    /\ lookup.pc \in {"attempt", "summary"} => Len(lookup.waits) = Len(lookup.outcomes)
    /\ lookup.pc = "sleep" =>
          /\ Len(lookup.waits) = Len(lookup.outcomes) - 1
          /\ Len(lookup.outcomes) < 3
    /\ LoopLeft => Len(lookup.waits) = Len(lookup.outcomes) - 1
    /\ \A i \in 1..Len(lookup.outcomes) :
          ~RetriedOutcome(lookup.outcomes[i]) =>
              /\ i = Len(lookup.outcomes)
              /\ LoopLeft

\* after a connection error and a wait of 2 seconds the second attempt met a
\* failure that is not retried, and the loop was left without another wait
C35_Witness ==
    /\ lookup.pc = "fallback"
    /\ Len(lookup.outcomes) = 2
    /\ lookup.outcomes[1].kind = "error"
    /\ lookup.outcomes[2] = Raised(e_bad_json)
    /\ lookup.waits = <<2>>

\* the ten fields the response is described with
AllResponseFields ==
    {"query", "intent", "sql_query", "results", "visualization_config",
     "memory_context", "db_schema", "error", "insights", "message"}

\* the fields present in the response (a key of the returned dict)
ResponseFields ==
    {"query", "intent", "sql_query", "results", "visualization_config",
     "memory_context", "db_schema", "error"}
      \cup (IF insights # Absent THEN {"insights"} ELSE {})
      \cup (IF message # Absent THEN {"message"} ELSE {})

\* C36 (as claimed): every response, on the conversational, tool, analytical
\* and semantic paths and from the outer error handler, has the same set of
\* fields; in particular insights is present (possibly null) in every
\* response.
C36_SameFieldsEveryPath ==
    pc = "done" => ResponseFields = AllResponseFields

\* the Visualization Selector has returned on a state with error unset and
\* rows in results (no later node changes error or results)
VizRanOnRows ==
    /\ Ran("visualizer")
    /\ pc \in {"insights_generator", "respond", "done"}
    /\ exc = None
    /\ ~TruthyText(error)
    /\ ~results.none
    /\ Len(results.rows) > 0

\* the chart types of the configuration record
ChartTypes ==
    {JString(s_bar), JString(s_line), JString(s_table), JString(s_map)}

\* C37 (as claimed): after the Visualization Selector ran with error unset
\* and results non-empty, visualization_config is a non-null record whose
\* type is bar, line, table or map, for every text the gateway can return.
C37_ConfigIsChartRecord ==
    VizRanOnRows =>
        /\ visualization_config.t = "object"
        /\ VizType \in ChartTypes

-----------------------------------------------------------------------------
(* Properties of get_pool *)

\* the callers that hold a pool get_pool returned to them
HoldingPool == {c \in Callers : pool.callers[c].got # None}

\* C38 (as claimed): when several requests call get_pool concurrently while
\* no pool exists yet (close_pool has not been called), at most one
\* connection pool is ever created and every caller receives that same pool.
C38_OnePoolForAll ==
    pool.closer.calls = 0 =>
        /\ pool.created <= 1
        /\ \A c \in HoldingPool, d \in HoldingPool :
              pool.callers[c].got = pool.callers[d].got

-----------------------------------------------------------------------------
(* wikipedia_lookup as a whole *)

\* the texts wikipedia_lookup can hand back for what it met
LookupTexts ==
    {Truncate(LastOutcome.text)}
      \cup {DefinitionText(calls[i]) : i \in CallsBy("get_definition")}
      \cup {NotFoundText(lookup.topic)}

\* C39: wikipedia_lookup never raises: for every combination of lookup
\* failures and glossary-definition failures (gateway error, missing API key),
\* with the fallback enabled or disabled, it goes on until it returns, no
\* exception is in flight, and what it returns is a text.
C39_LookupReturnsText ==
    /\ exc = None
    /\ lookup.pc \in {"attempt", "summary", "sleep", "fallback", "returned"}
    /\ lookup.pc # "returned" => ENABLED LookupNext
    /\ lookup.pc = "returned" =>
          /\ lookup.returned # None
          /\ lookup.returned \in LookupTexts

\* every attempt failed and so did the glossary definition, by a gateway error
\* or for want of the API key, and the lookup returned the error as a text
C39_Witness ==
    /\ lookup.pc = "returned"
    /\ lookup.fallback_to_gemini
    /\ \A i \in 1..Len(lookup.outcomes) : lookup.outcomes[i].kind \in {"timeout", "error"}
    /\ \E i \in CallsBy("get_definition") : ~calls[i].ok
    /\ lookup.returned \in {s_definition_error \o e_gateway, s_api_key_error}
====
